---- MODULE Spec2Model ----
(***************************************************************************)
(* The chess-aware move codecs of CompressedGameNotation: move ranking     *)
(* (score_move.rs), the Huffman codebook (huffman_codes.rs), the framing   *)
(* of headers and move body (utils/mod.rs), the static codec (huffman.rs)  *)
(* and the dynamic codec (dynamic_huffman.rs).                             *)
(*                                                                         *)
(* External crates are modelled by what the codecs observe of them:        *)
(*   shakmaty        - the table Positions holds real chess positions (the *)
(*                     positions of the game lines listed with it), each   *)
(*                     with its complete list of legal moves;              *)
(*   huffman_compress- CodeBuilder, Book and Tree, bit for bit;            *)
(*   bit_vec         - a BitVec is a sequence of 0/1, a byte is 0..255;    *)
(*   bincode, flate2 - the header block is the bincode layout of the seven *)
(*                     strings inside a zlib container whose payload is    *)
(*                     kept in stored form (header, payload, Adler-32).    *)
(***************************************************************************)
EXTENDS Integers, Sequences, FiniteSets, TLC

\* ---------------------------------------------------------------- bounds
MaxPlies == 7            \* longest game given to the codecs in Spec
MaxRawBits == 4          \* longest arbitrary bit vector given to a decoder
MaxShufflePlies == 257   \* longest game of SpecLong

\* ------------------------------------------------------------- bit_vec
Bit == {0, 1}

Pow2(k) == 2 ^ k

\* BitVec::from_bytes: every byte, most significant bit first
FromBytes(bytes) ==
  [i \in 1..(8 * Len(bytes)) |->
     (bytes[((i - 1) \div 8) + 1] \div Pow2(7 - ((i - 1) % 8))) % 2]

\* BitVec::to_bytes: the last byte is filled up with zero bits
BitAt(bits, i) == IF i <= Len(bits) THEN bits[i] ELSE 0

ToBytes(bits) ==
  [j \in 1..((Len(bits) + 7) \div 8) |->
     128 * BitAt(bits, 8 * j - 7) + 64 * BitAt(bits, 8 * j - 6)
     + 32 * BitAt(bits, 8 * j - 5) + 16 * BitAt(bits, 8 * j - 4)
     + 8 * BitAt(bits, 8 * j - 3) + 4 * BitAt(bits, 8 * j - 2)
     + 2 * BitAt(bits, 8 * j - 1) + BitAt(bits, 8 * j)]

\* the value of a failed Result
Err == [ok |-> FALSE]

\* i8_to_bit_vec with the loop running up instead of down: lowest bit first
i8_to_bit_vec_ascending(i) == [j \in 1..8 |-> (i \div Pow2(j - 1)) % 2]

\* i8_to_bit_vec: the eight bits of i, highest first
i8_to_bit_vec(i) == [j \in 1..8 |-> (i \div Pow2(8 - j)) % 2]

\* a slice without the test start > end: the range start..end is then empty
get_bitvec_slice_any_order(bit_vec, start, end) ==
  IF (start > Len(bit_vec)) \/ (end > Len(bit_vec))
  THEN Err
  ELSE [ok |-> TRUE, bits |-> SubSeq(bit_vec, start + 1, end)]

\* get_bitvec_slice: bits start (inclusive) to end (exclusive), 0-based
get_bitvec_slice(bit_vec, start, end) ==
  IF (start > end) \/ (start > Len(bit_vec)) \/ (end > Len(bit_vec))
  THEN Err
  ELSE [ok |-> TRUE, bits |-> SubSeq(bit_vec, start + 1, end)]

\* ------------------------------------------------------------ move ranking
\* a shakmaty::Move as score_move.rs reads it: role (Pawn = 1 .. King = 6),
\* from() and to() (squares A1 = 0 .. H8 = 63; a castling move goes from the
\* king's square to the rook's square), is_capture(), promotion() (0 = None);
\* san is its SanPlus text and next the position it leads to (0: a position
\* outside the table)
M(san, role, from, to, capture, promotion, next) ==
  [san |-> san, role |-> role, from |-> from, to |-> to,
   capture |-> capture, promotion |-> promotion, next |-> next]

\* Chess positions: side to move, the squares of the opponent's pawns,
\* is_checkmate(), is_stalemate() and legal_moves() in generation order.
\* Position 1 is Chess::default(); the others are the positions of the lines
\*   1. f3 e5 2. g4 Qh4#                      1. Nf3 Nf6 2. Ng1 Ng8
\*   1. e4 e6 2. Bc4 d5 3. Bxd5 / 3. exd5     1. e4 e5 2. Nf3 Nc6 3. Bc4 Bc5 4. O-O
\*   1. e4 a6 2. e5 d5 3. exd6                1. e4 c5 2. c4
\*   1. h4 g5 2. hxg5 Nf6 3. g6 Ng8 4. gxh7 a6 5. hxg8=Q / 5. hxg8=N
\*   1. e3 a5 2. Qh5 Ra6 3. Qxa5 h5 4. h4 Rah6 5. Qxc7 f6 6. Qxd7+ Kf7
\*      7. Qxb7 Qd3 8. Qxb8 Qh7 9. Qxc8 Kg6 10. Qe6 (stalemate)
\*   1. d4 d5   1. d4 Nf6   1. a3 a6   1. Nh3 Nh6
Positions ==
  <<
    \* position 1
    [turn |-> "white", their_pawns |-> {48, 49, 50, 51, 52, 53, 54, 55}, is_checkmate |-> FALSE, is_stalemate |-> FALSE,
     legal_moves |-> <<
       M("Nc3", 2, 1, 18, FALSE, 0, 0),
       M("Na3", 2, 1, 16, FALSE, 0, 0),
       M("Nh3", 2, 6, 23, FALSE, 0, 61),
       M("Nf3", 2, 6, 21, FALSE, 0, 6),
       M("a3", 1, 8, 16, FALSE, 0, 59),
       M("a4", 1, 8, 24, FALSE, 0, 0),
       M("b3", 1, 9, 17, FALSE, 0, 0),
       M("b4", 1, 9, 25, FALSE, 0, 0),
       M("c3", 1, 10, 18, FALSE, 0, 0),
       M("c4", 1, 10, 26, FALSE, 0, 0),
       M("d3", 1, 11, 19, FALSE, 0, 0),
       M("d4", 1, 11, 27, FALSE, 0, 54),
       M("e3", 1, 12, 20, FALSE, 0, 35),
       M("e4", 1, 12, 28, FALSE, 0, 9),
       M("f3", 1, 13, 21, FALSE, 0, 2),
       M("f4", 1, 13, 29, FALSE, 0, 0),
       M("g3", 1, 14, 22, FALSE, 0, 0),
       M("g4", 1, 14, 30, FALSE, 0, 0),
       M("h3", 1, 15, 23, FALSE, 0, 0),
       M("h4", 1, 15, 31, FALSE, 0, 25)>>],
    \* position 2
    [turn |-> "black", their_pawns |-> {8, 9, 10, 11, 12, 14, 15, 21}, is_checkmate |-> FALSE, is_stalemate |-> FALSE,
     legal_moves |-> <<
       M("a6", 1, 48, 40, FALSE, 0, 0),
       M("a5", 1, 48, 32, FALSE, 0, 0),
       M("b6", 1, 49, 41, FALSE, 0, 0),
       M("b5", 1, 49, 33, FALSE, 0, 0),
       M("c6", 1, 50, 42, FALSE, 0, 0),
       M("c5", 1, 50, 34, FALSE, 0, 0),
       M("d6", 1, 51, 43, FALSE, 0, 0),
       M("d5", 1, 51, 35, FALSE, 0, 0),
       M("e6", 1, 52, 44, FALSE, 0, 0),
       M("e5", 1, 52, 36, FALSE, 0, 3),
       M("f6", 1, 53, 45, FALSE, 0, 0),
       M("f5", 1, 53, 37, FALSE, 0, 0),
       M("g6", 1, 54, 46, FALSE, 0, 0),
       M("g5", 1, 54, 38, FALSE, 0, 0),
       M("h6", 1, 55, 47, FALSE, 0, 0),
       M("h5", 1, 55, 39, FALSE, 0, 0),
       M("Nc6", 2, 57, 42, FALSE, 0, 0),
       M("Na6", 2, 57, 40, FALSE, 0, 0),
       M("Nh6", 2, 62, 47, FALSE, 0, 0),
       M("Nf6", 2, 62, 45, FALSE, 0, 0)>>],
    \* position 3
    [turn |-> "white", their_pawns |-> {36, 48, 49, 50, 51, 53, 54, 55}, is_checkmate |-> FALSE, is_stalemate |-> FALSE,
     legal_moves |-> <<
       M("Nc3", 2, 1, 18, FALSE, 0, 0),
       M("Na3", 2, 1, 16, FALSE, 0, 0),
       M("Kf2", 6, 4, 13, FALSE, 0, 0),
       M("Nh3", 2, 6, 23, FALSE, 0, 0),
       M("a3", 1, 8, 16, FALSE, 0, 0),
       M("a4", 1, 8, 24, FALSE, 0, 0),
       M("b3", 1, 9, 17, FALSE, 0, 0),
       M("b4", 1, 9, 25, FALSE, 0, 0),
       M("c3", 1, 10, 18, FALSE, 0, 0),
       M("c4", 1, 10, 26, FALSE, 0, 0),
       M("d3", 1, 11, 19, FALSE, 0, 0),
       M("d4", 1, 11, 27, FALSE, 0, 0),
       M("e3", 1, 12, 20, FALSE, 0, 0),
       M("e4", 1, 12, 28, FALSE, 0, 0),
       M("g3", 1, 14, 22, FALSE, 0, 0),
       M("g4", 1, 14, 30, FALSE, 0, 4),
       M("h3", 1, 15, 23, FALSE, 0, 0),
       M("h4", 1, 15, 31, FALSE, 0, 0),
       M("f4", 1, 21, 29, FALSE, 0, 0)>>],
    \* position 4
    [turn |-> "black", their_pawns |-> {8, 9, 10, 11, 12, 15, 21, 30}, is_checkmate |-> FALSE, is_stalemate |-> FALSE,
     legal_moves |-> <<
       M("e4", 1, 36, 28, FALSE, 0, 0),
       M("a6", 1, 48, 40, FALSE, 0, 0),
       M("a5", 1, 48, 32, FALSE, 0, 0),
       M("b6", 1, 49, 41, FALSE, 0, 0),
       M("b5", 1, 49, 33, FALSE, 0, 0),
       M("c6", 1, 50, 42, FALSE, 0, 0),
       M("c5", 1, 50, 34, FALSE, 0, 0),
       M("d6", 1, 51, 43, FALSE, 0, 0),
       M("d5", 1, 51, 35, FALSE, 0, 0),
       M("f6", 1, 53, 45, FALSE, 0, 0),
       M("f5", 1, 53, 37, FALSE, 0, 0),
       M("g6", 1, 54, 46, FALSE, 0, 0),
       M("g5", 1, 54, 38, FALSE, 0, 0),
       M("h6", 1, 55, 47, FALSE, 0, 0),
       M("h5", 1, 55, 39, FALSE, 0, 0),
       M("Nc6", 2, 57, 42, FALSE, 0, 0),
       M("Na6", 2, 57, 40, FALSE, 0, 0),
       M("Qe7", 5, 59, 52, FALSE, 0, 0),
       M("Qf6", 5, 59, 45, FALSE, 0, 0),
       M("Qg5", 5, 59, 38, FALSE, 0, 0),
       M("Qh4#", 5, 59, 31, FALSE, 0, 5),
       M("Ke7", 6, 60, 52, FALSE, 0, 0),
       M("Be7", 3, 61, 52, FALSE, 0, 0),
       M("Bd6", 3, 61, 43, FALSE, 0, 0),
       M("Bc5", 3, 61, 34, FALSE, 0, 0),
       M("Bb4", 3, 61, 25, FALSE, 0, 0),
       M("Ba3", 3, 61, 16, FALSE, 0, 0),
       M("Nh6", 2, 62, 47, FALSE, 0, 0),
       M("Nf6", 2, 62, 45, FALSE, 0, 0),
       M("Ne7", 2, 62, 52, FALSE, 0, 0)>>],
    \* position 5
    [turn |-> "white", their_pawns |-> {36, 48, 49, 50, 51, 53, 54, 55}, is_checkmate |-> TRUE, is_stalemate |-> FALSE,
     legal_moves |-> <<>>],
    \* position 6
    [turn |-> "black", their_pawns |-> {8, 9, 10, 11, 12, 13, 14, 15}, is_checkmate |-> FALSE, is_stalemate |-> FALSE,
     legal_moves |-> <<
       M("a6", 1, 48, 40, FALSE, 0, 0),
       M("a5", 1, 48, 32, FALSE, 0, 0),
       M("b6", 1, 49, 41, FALSE, 0, 0),
       M("b5", 1, 49, 33, FALSE, 0, 0),
       M("c6", 1, 50, 42, FALSE, 0, 0),
       M("c5", 1, 50, 34, FALSE, 0, 0),
       M("d6", 1, 51, 43, FALSE, 0, 0),
       M("d5", 1, 51, 35, FALSE, 0, 0),
       M("e6", 1, 52, 44, FALSE, 0, 0),
       M("e5", 1, 52, 36, FALSE, 0, 0),
       M("f6", 1, 53, 45, FALSE, 0, 0),
       M("f5", 1, 53, 37, FALSE, 0, 0),
       M("g6", 1, 54, 46, FALSE, 0, 0),
       M("g5", 1, 54, 38, FALSE, 0, 0),
       M("h6", 1, 55, 47, FALSE, 0, 0),
       M("h5", 1, 55, 39, FALSE, 0, 0),
       M("Nc6", 2, 57, 42, FALSE, 0, 0),
       M("Na6", 2, 57, 40, FALSE, 0, 0),
       M("Nh6", 2, 62, 47, FALSE, 0, 0),
       M("Nf6", 2, 62, 45, FALSE, 0, 7)>>],
    \* position 7
    [turn |-> "white", their_pawns |-> {48, 49, 50, 51, 52, 53, 54, 55}, is_checkmate |-> FALSE, is_stalemate |-> FALSE,
     legal_moves |-> <<
       M("Nc3", 2, 1, 18, FALSE, 0, 0),
       M("Na3", 2, 1, 16, FALSE, 0, 0),
       M("Rg1", 4, 7, 6, FALSE, 0, 0),
       M("a3", 1, 8, 16, FALSE, 0, 0),
       M("a4", 1, 8, 24, FALSE, 0, 0),
       M("b3", 1, 9, 17, FALSE, 0, 0),
       M("b4", 1, 9, 25, FALSE, 0, 0),
       M("c3", 1, 10, 18, FALSE, 0, 0),
       M("c4", 1, 10, 26, FALSE, 0, 0),
       M("d3", 1, 11, 19, FALSE, 0, 0),
       M("d4", 1, 11, 27, FALSE, 0, 0),
       M("e3", 1, 12, 20, FALSE, 0, 0),
       M("e4", 1, 12, 28, FALSE, 0, 0),
       M("g3", 1, 14, 22, FALSE, 0, 0),
       M("g4", 1, 14, 30, FALSE, 0, 0),
       M("h3", 1, 15, 23, FALSE, 0, 0),
       M("h4", 1, 15, 31, FALSE, 0, 0),
       M("Ng5", 2, 21, 38, FALSE, 0, 0),
       M("Nh4", 2, 21, 31, FALSE, 0, 0),
       M("Ne5", 2, 21, 36, FALSE, 0, 0),
       M("Nd4", 2, 21, 27, FALSE, 0, 0),
       M("Ng1", 2, 21, 6, FALSE, 0, 8)>>],
    \* position 8
    [turn |-> "black", their_pawns |-> {8, 9, 10, 11, 12, 13, 14, 15}, is_checkmate |-> FALSE, is_stalemate |-> FALSE,
     legal_moves |-> <<
       M("Ng8", 2, 45, 62, FALSE, 0, 1),
       M("Ng4", 2, 45, 30, FALSE, 0, 0),
       M("Nh5", 2, 45, 39, FALSE, 0, 0),
       M("Ne4", 2, 45, 28, FALSE, 0, 0),
       M("Nd5", 2, 45, 35, FALSE, 0, 0),
       M("a6", 1, 48, 40, FALSE, 0, 0),
       M("a5", 1, 48, 32, FALSE, 0, 0),
       M("b6", 1, 49, 41, FALSE, 0, 0),
       M("b5", 1, 49, 33, FALSE, 0, 0),
       M("c6", 1, 50, 42, FALSE, 0, 0),
       M("c5", 1, 50, 34, FALSE, 0, 0),
       M("d6", 1, 51, 43, FALSE, 0, 0),
       M("d5", 1, 51, 35, FALSE, 0, 0),
       M("e6", 1, 52, 44, FALSE, 0, 0),
       M("e5", 1, 52, 36, FALSE, 0, 0),
       M("g6", 1, 54, 46, FALSE, 0, 0),
       M("g5", 1, 54, 38, FALSE, 0, 0),
       M("h6", 1, 55, 47, FALSE, 0, 0),
       M("h5", 1, 55, 39, FALSE, 0, 0),
       M("Nc6", 2, 57, 42, FALSE, 0, 0),
       M("Na6", 2, 57, 40, FALSE, 0, 0),
       M("Rg8", 4, 63, 62, FALSE, 0, 0)>>],
    \* position 9
    [turn |-> "black", their_pawns |-> {8, 9, 10, 11, 13, 14, 15, 28}, is_checkmate |-> FALSE, is_stalemate |-> FALSE,
     legal_moves |-> <<
       M("a6", 1, 48, 40, FALSE, 0, 21),
       M("a5", 1, 48, 32, FALSE, 0, 0),
       M("b6", 1, 49, 41, FALSE, 0, 0),
       M("b5", 1, 49, 33, FALSE, 0, 0),
       M("c6", 1, 50, 42, FALSE, 0, 0),
       M("c5", 1, 50, 34, FALSE, 0, 57),
       M("d6", 1, 51, 43, FALSE, 0, 0),
       M("d5", 1, 51, 35, FALSE, 0, 0),
       M("e6", 1, 52, 44, FALSE, 0, 10),
       M("e5", 1, 52, 36, FALSE, 0, 15),
       M("f6", 1, 53, 45, FALSE, 0, 0),
       M("f5", 1, 53, 37, FALSE, 0, 0),
       M("g6", 1, 54, 46, FALSE, 0, 0),
       M("g5", 1, 54, 38, FALSE, 0, 0),
       M("h6", 1, 55, 47, FALSE, 0, 0),
       M("h5", 1, 55, 39, FALSE, 0, 0),
       M("Nc6", 2, 57, 42, FALSE, 0, 0),
       M("Na6", 2, 57, 40, FALSE, 0, 0),
       M("Nh6", 2, 62, 47, FALSE, 0, 0),
       M("Nf6", 2, 62, 45, FALSE, 0, 0)>>],
    \* position 10
    [turn |-> "white", their_pawns |-> {44, 48, 49, 50, 51, 53, 54, 55}, is_checkmate |-> FALSE, is_stalemate |-> FALSE,
     legal_moves |-> <<
       M("Nc3", 2, 1, 18, FALSE, 0, 0),
       M("Na3", 2, 1, 16, FALSE, 0, 0),
       M("Qe2", 5, 3, 12, FALSE, 0, 0),
       M("Qf3", 5, 3, 21, FALSE, 0, 0),
       M("Qg4", 5, 3, 30, FALSE, 0, 0),
       M("Qh5", 5, 3, 39, FALSE, 0, 0),
       M("Ke2", 6, 4, 12, FALSE, 0, 0),
       M("Be2", 3, 5, 12, FALSE, 0, 0),
       M("Bd3", 3, 5, 19, FALSE, 0, 0),
       M("Bc4", 3, 5, 26, FALSE, 0, 11),
       M("Bb5", 3, 5, 33, FALSE, 0, 0),
       M("Ba6", 3, 5, 40, FALSE, 0, 0),
       M("Nh3", 2, 6, 23, FALSE, 0, 0),
       M("Nf3", 2, 6, 21, FALSE, 0, 0),
       M("Ne2", 2, 6, 12, FALSE, 0, 0),
       M("a3", 1, 8, 16, FALSE, 0, 0),
       M("a4", 1, 8, 24, FALSE, 0, 0),
       M("b3", 1, 9, 17, FALSE, 0, 0),
       M("b4", 1, 9, 25, FALSE, 0, 0),
       M("c3", 1, 10, 18, FALSE, 0, 0),
       M("c4", 1, 10, 26, FALSE, 0, 0),
       M("d3", 1, 11, 19, FALSE, 0, 0),
       M("d4", 1, 11, 27, FALSE, 0, 0),
       M("f3", 1, 13, 21, FALSE, 0, 0),
       M("f4", 1, 13, 29, FALSE, 0, 0),
       M("g3", 1, 14, 22, FALSE, 0, 0),
       M("g4", 1, 14, 30, FALSE, 0, 0),
       M("h3", 1, 15, 23, FALSE, 0, 0),
       M("h4", 1, 15, 31, FALSE, 0, 0),
       M("e5", 1, 28, 36, FALSE, 0, 0)>>],
    \* position 11
    [turn |-> "black", their_pawns |-> {8, 9, 10, 11, 13, 14, 15, 28}, is_checkmate |-> FALSE, is_stalemate |-> FALSE,
     legal_moves |-> <<
       M("e5", 1, 44, 36, FALSE, 0, 0),
       M("a6", 1, 48, 40, FALSE, 0, 0),
       M("a5", 1, 48, 32, FALSE, 0, 0),
       M("b6", 1, 49, 41, FALSE, 0, 0),
       M("b5", 1, 49, 33, FALSE, 0, 0),
       M("c6", 1, 50, 42, FALSE, 0, 0),
       M("c5", 1, 50, 34, FALSE, 0, 0),
       M("d6", 1, 51, 43, FALSE, 0, 0),
       M("d5", 1, 51, 35, FALSE, 0, 12),
       M("f6", 1, 53, 45, FALSE, 0, 0),
       M("f5", 1, 53, 37, FALSE, 0, 0),
       M("g6", 1, 54, 46, FALSE, 0, 0),
       M("g5", 1, 54, 38, FALSE, 0, 0),
       M("h6", 1, 55, 47, FALSE, 0, 0),
       M("h5", 1, 55, 39, FALSE, 0, 0),
       M("Nc6", 2, 57, 42, FALSE, 0, 0),
       M("Na6", 2, 57, 40, FALSE, 0, 0),
       M("Qe7", 5, 59, 52, FALSE, 0, 0),
       M("Qf6", 5, 59, 45, FALSE, 0, 0),
       M("Qg5", 5, 59, 38, FALSE, 0, 0),
       M("Qh4", 5, 59, 31, FALSE, 0, 0),
       M("Ke7", 6, 60, 52, FALSE, 0, 0),
       M("Be7", 3, 61, 52, FALSE, 0, 0),
       M("Bd6", 3, 61, 43, FALSE, 0, 0),
       M("Bc5", 3, 61, 34, FALSE, 0, 0),
       M("Bb4", 3, 61, 25, FALSE, 0, 0),
       M("Ba3", 3, 61, 16, FALSE, 0, 0),
       M("Nh6", 2, 62, 47, FALSE, 0, 0),
       M("Nf6", 2, 62, 45, FALSE, 0, 0),
       M("Ne7", 2, 62, 52, FALSE, 0, 0)>>],
    \* position 12
    [turn |-> "white", their_pawns |-> {35, 44, 48, 49, 50, 53, 54, 55}, is_checkmate |-> FALSE, is_stalemate |-> FALSE,
     legal_moves |-> <<
       M("Nc3", 2, 1, 18, FALSE, 0, 0),
       M("Na3", 2, 1, 16, FALSE, 0, 0),
       M("Qe2", 5, 3, 12, FALSE, 0, 0),
       M("Qf3", 5, 3, 21, FALSE, 0, 0),
       M("Qg4", 5, 3, 30, FALSE, 0, 0),
       M("Qh5", 5, 3, 39, FALSE, 0, 0),
       M("Ke2", 6, 4, 12, FALSE, 0, 0),
       M("Kf1", 6, 4, 5, FALSE, 0, 0),
       M("Nh3", 2, 6, 23, FALSE, 0, 0),
       M("Nf3", 2, 6, 21, FALSE, 0, 0),
       M("Ne2", 2, 6, 12, FALSE, 0, 0),
       M("a3", 1, 8, 16, FALSE, 0, 0),
       M("a4", 1, 8, 24, FALSE, 0, 0),
       M("b3", 1, 9, 17, FALSE, 0, 0),
       M("b4", 1, 9, 25, FALSE, 0, 0),
       M("c3", 1, 10, 18, FALSE, 0, 0),
       M("d3", 1, 11, 19, FALSE, 0, 0),
       M("d4", 1, 11, 27, FALSE, 0, 0),
       M("f3", 1, 13, 21, FALSE, 0, 0),
       M("f4", 1, 13, 29, FALSE, 0, 0),
       M("g3", 1, 14, 22, FALSE, 0, 0),
       M("g4", 1, 14, 30, FALSE, 0, 0),
       M("h3", 1, 15, 23, FALSE, 0, 0),
       M("h4", 1, 15, 31, FALSE, 0, 0),
       M("Bxd5", 3, 26, 35, TRUE, 0, 13),
       M("Bd3", 3, 26, 19, FALSE, 0, 0),
       M("Be2", 3, 26, 12, FALSE, 0, 0),
       M("Bf1", 3, 26, 5, FALSE, 0, 0),
       M("Bb5+", 3, 26, 33, FALSE, 0, 0),
       M("Ba6", 3, 26, 40, FALSE, 0, 0),
       M("Bb3", 3, 26, 17, FALSE, 0, 0),
       M("e5", 1, 28, 36, FALSE, 0, 0),
       M("exd5", 1, 28, 35, TRUE, 0, 14)>>],
    \* position 13
    [turn |-> "black", their_pawns |-> {8, 9, 10, 11, 13, 14, 15, 28}, is_checkmate |-> FALSE, is_stalemate |-> FALSE,
     legal_moves |-> <<
       M("e5", 1, 44, 36, FALSE, 0, 0),
       M("exd5", 1, 44, 35, TRUE, 0, 0),
       M("a6", 1, 48, 40, FALSE, 0, 0),
       M("a5", 1, 48, 32, FALSE, 0, 0),
       M("b6", 1, 49, 41, FALSE, 0, 0),
       M("b5", 1, 49, 33, FALSE, 0, 0),
       M("c6", 1, 50, 42, FALSE, 0, 0),
       M("c5", 1, 50, 34, FALSE, 0, 0),
       M("f6", 1, 53, 45, FALSE, 0, 0),
       M("f5", 1, 53, 37, FALSE, 0, 0),
       M("g6", 1, 54, 46, FALSE, 0, 0),
       M("g5", 1, 54, 38, FALSE, 0, 0),
       M("h6", 1, 55, 47, FALSE, 0, 0),
       M("h5", 1, 55, 39, FALSE, 0, 0),
       M("Nc6", 2, 57, 42, FALSE, 0, 0),
       M("Nd7", 2, 57, 51, FALSE, 0, 0),
       M("Na6", 2, 57, 40, FALSE, 0, 0),
       M("Bd7", 3, 58, 51, FALSE, 0, 0),
       M("Qd7", 5, 59, 51, FALSE, 0, 0),
       M("Qd6", 5, 59, 43, FALSE, 0, 0),
       M("Qxd5", 5, 59, 35, TRUE, 0, 0),
       M("Qe7", 5, 59, 52, FALSE, 0, 0),
       M("Qf6", 5, 59, 45, FALSE, 0, 0),
       M("Qg5", 5, 59, 38, FALSE, 0, 0),
       M("Qh4", 5, 59, 31, FALSE, 0, 0),
       M("Kd7", 6, 60, 51, FALSE, 0, 0),
       M("Ke7", 6, 60, 52, FALSE, 0, 0),
       M("Be7", 3, 61, 52, FALSE, 0, 0),
       M("Bd6", 3, 61, 43, FALSE, 0, 0),
       M("Bc5", 3, 61, 34, FALSE, 0, 0),
       M("Bb4", 3, 61, 25, FALSE, 0, 0),
       M("Ba3", 3, 61, 16, FALSE, 0, 0),
       M("Nh6", 2, 62, 47, FALSE, 0, 0),
       M("Nf6", 2, 62, 45, FALSE, 0, 0),
       M("Ne7", 2, 62, 52, FALSE, 0, 0)>>],
    \* position 14
    [turn |-> "black", their_pawns |-> {8, 9, 10, 11, 13, 14, 15, 35}, is_checkmate |-> FALSE, is_stalemate |-> FALSE,
     legal_moves |-> <<
       M("e5", 1, 44, 36, FALSE, 0, 0),
       M("exd5", 1, 44, 35, TRUE, 0, 0),
       M("a6", 1, 48, 40, FALSE, 0, 0),
       M("a5", 1, 48, 32, FALSE, 0, 0),
       M("b6", 1, 49, 41, FALSE, 0, 0),
       M("b5", 1, 49, 33, FALSE, 0, 0),
       M("c6", 1, 50, 42, FALSE, 0, 0),
       M("c5", 1, 50, 34, FALSE, 0, 0),
       M("f6", 1, 53, 45, FALSE, 0, 0),
       M("f5", 1, 53, 37, FALSE, 0, 0),
       M("g6", 1, 54, 46, FALSE, 0, 0),
       M("g5", 1, 54, 38, FALSE, 0, 0),
       M("h6", 1, 55, 47, FALSE, 0, 0),
       M("h5", 1, 55, 39, FALSE, 0, 0),
       M("Nc6", 2, 57, 42, FALSE, 0, 0),
       M("Nd7", 2, 57, 51, FALSE, 0, 0),
       M("Na6", 2, 57, 40, FALSE, 0, 0),
       M("Bd7", 3, 58, 51, FALSE, 0, 0),
       M("Qd7", 5, 59, 51, FALSE, 0, 0),
       M("Qd6", 5, 59, 43, FALSE, 0, 0),
       M("Qxd5", 5, 59, 35, TRUE, 0, 0),
       M("Qe7", 5, 59, 52, FALSE, 0, 0),
       M("Qf6", 5, 59, 45, FALSE, 0, 0),
       M("Qg5", 5, 59, 38, FALSE, 0, 0),
       M("Qh4", 5, 59, 31, FALSE, 0, 0),
       M("Kd7", 6, 60, 51, FALSE, 0, 0),
       M("Ke7", 6, 60, 52, FALSE, 0, 0),
       M("Be7", 3, 61, 52, FALSE, 0, 0),
       M("Bd6", 3, 61, 43, FALSE, 0, 0),
       M("Bc5", 3, 61, 34, FALSE, 0, 0),
       M("Bb4", 3, 61, 25, FALSE, 0, 0),
       M("Ba3", 3, 61, 16, FALSE, 0, 0),
       M("Nh6", 2, 62, 47, FALSE, 0, 0),
       M("Nf6", 2, 62, 45, FALSE, 0, 0),
       M("Ne7", 2, 62, 52, FALSE, 0, 0)>>],
    \* position 15
    [turn |-> "white", their_pawns |-> {36, 48, 49, 50, 51, 53, 54, 55}, is_checkmate |-> FALSE, is_stalemate |-> FALSE,
     legal_moves |-> <<
       M("Nc3", 2, 1, 18, FALSE, 0, 0),
       M("Na3", 2, 1, 16, FALSE, 0, 0),
       M("Qe2", 5, 3, 12, FALSE, 0, 0),
       M("Qf3", 5, 3, 21, FALSE, 0, 0),
       M("Qg4", 5, 3, 30, FALSE, 0, 0),
       M("Qh5", 5, 3, 39, FALSE, 0, 0),
       M("Ke2", 6, 4, 12, FALSE, 0, 0),
       M("Be2", 3, 5, 12, FALSE, 0, 0),
       M("Bd3", 3, 5, 19, FALSE, 0, 0),
       M("Bc4", 3, 5, 26, FALSE, 0, 0),
       M("Bb5", 3, 5, 33, FALSE, 0, 0),
       M("Ba6", 3, 5, 40, FALSE, 0, 0),
       M("Nh3", 2, 6, 23, FALSE, 0, 0),
       M("Nf3", 2, 6, 21, FALSE, 0, 16),
       M("Ne2", 2, 6, 12, FALSE, 0, 0),
       M("a3", 1, 8, 16, FALSE, 0, 0),
       M("a4", 1, 8, 24, FALSE, 0, 0),
       M("b3", 1, 9, 17, FALSE, 0, 0),
       M("b4", 1, 9, 25, FALSE, 0, 0),
       M("c3", 1, 10, 18, FALSE, 0, 0),
       M("c4", 1, 10, 26, FALSE, 0, 0),
       M("d3", 1, 11, 19, FALSE, 0, 0),
       M("d4", 1, 11, 27, FALSE, 0, 0),
       M("f3", 1, 13, 21, FALSE, 0, 0),
       M("f4", 1, 13, 29, FALSE, 0, 0),
       M("g3", 1, 14, 22, FALSE, 0, 0),
       M("g4", 1, 14, 30, FALSE, 0, 0),
       M("h3", 1, 15, 23, FALSE, 0, 0),
       M("h4", 1, 15, 31, FALSE, 0, 0)>>],
    \* position 16
    [turn |-> "black", their_pawns |-> {8, 9, 10, 11, 13, 14, 15, 28}, is_checkmate |-> FALSE, is_stalemate |-> FALSE,
     legal_moves |-> <<
       M("a6", 1, 48, 40, FALSE, 0, 0),
       M("a5", 1, 48, 32, FALSE, 0, 0),
       M("b6", 1, 49, 41, FALSE, 0, 0),
       M("b5", 1, 49, 33, FALSE, 0, 0),
       M("c6", 1, 50, 42, FALSE, 0, 0),
       M("c5", 1, 50, 34, FALSE, 0, 0),
       M("d6", 1, 51, 43, FALSE, 0, 0),
       M("d5", 1, 51, 35, FALSE, 0, 0),
       M("f6", 1, 53, 45, FALSE, 0, 0),
       M("f5", 1, 53, 37, FALSE, 0, 0),
       M("g6", 1, 54, 46, FALSE, 0, 0),
       M("g5", 1, 54, 38, FALSE, 0, 0),
       M("h6", 1, 55, 47, FALSE, 0, 0),
       M("h5", 1, 55, 39, FALSE, 0, 0),
       M("Nc6", 2, 57, 42, FALSE, 0, 17),
       M("Na6", 2, 57, 40, FALSE, 0, 0),
       M("Qe7", 5, 59, 52, FALSE, 0, 0),
       M("Qf6", 5, 59, 45, FALSE, 0, 0),
       M("Qg5", 5, 59, 38, FALSE, 0, 0),
       M("Qh4", 5, 59, 31, FALSE, 0, 0),
       M("Ke7", 6, 60, 52, FALSE, 0, 0),
       M("Be7", 3, 61, 52, FALSE, 0, 0),
       M("Bd6", 3, 61, 43, FALSE, 0, 0),
       M("Bc5", 3, 61, 34, FALSE, 0, 0),
       M("Bb4", 3, 61, 25, FALSE, 0, 0),
       M("Ba3", 3, 61, 16, FALSE, 0, 0),
       M("Nh6", 2, 62, 47, FALSE, 0, 0),
       M("Nf6", 2, 62, 45, FALSE, 0, 0),
       M("Ne7", 2, 62, 52, FALSE, 0, 0)>>],
    \* position 17
    [turn |-> "white", their_pawns |-> {36, 48, 49, 50, 51, 53, 54, 55}, is_checkmate |-> FALSE, is_stalemate |-> FALSE,
     legal_moves |-> <<
       M("Nc3", 2, 1, 18, FALSE, 0, 0),
       M("Na3", 2, 1, 16, FALSE, 0, 0),
       M("Qe2", 5, 3, 12, FALSE, 0, 0),
       M("Ke2", 6, 4, 12, FALSE, 0, 0),
       M("Be2", 3, 5, 12, FALSE, 0, 0),
       M("Bd3", 3, 5, 19, FALSE, 0, 0),
       M("Bc4", 3, 5, 26, FALSE, 0, 18),
       M("Bb5", 3, 5, 33, FALSE, 0, 0),
       M("Ba6", 3, 5, 40, FALSE, 0, 0),
       M("Rg1", 4, 7, 6, FALSE, 0, 0),
       M("a3", 1, 8, 16, FALSE, 0, 0),
       M("a4", 1, 8, 24, FALSE, 0, 0),
       M("b3", 1, 9, 17, FALSE, 0, 0),
       M("b4", 1, 9, 25, FALSE, 0, 0),
       M("c3", 1, 10, 18, FALSE, 0, 0),
       M("c4", 1, 10, 26, FALSE, 0, 0),
       M("d3", 1, 11, 19, FALSE, 0, 0),
       M("d4", 1, 11, 27, FALSE, 0, 0),
       M("g3", 1, 14, 22, FALSE, 0, 0),
       M("g4", 1, 14, 30, FALSE, 0, 0),
       M("h3", 1, 15, 23, FALSE, 0, 0),
       M("h4", 1, 15, 31, FALSE, 0, 0),
       M("Ng5", 2, 21, 38, FALSE, 0, 0),
       M("Nh4", 2, 21, 31, FALSE, 0, 0),
       M("Nxe5", 2, 21, 36, TRUE, 0, 0),
       M("Nd4", 2, 21, 27, FALSE, 0, 0),
       M("Ng1", 2, 21, 6, FALSE, 0, 0)>>],
    \* position 18
    [turn |-> "black", their_pawns |-> {8, 9, 10, 11, 13, 14, 15, 28}, is_checkmate |-> FALSE, is_stalemate |-> FALSE,
     legal_moves |-> <<
       M("Nce7", 2, 42, 52, FALSE, 0, 0),
       M("Nb8", 2, 42, 57, FALSE, 0, 0),
       M("Nd4", 2, 42, 27, FALSE, 0, 0),
       M("Nb4", 2, 42, 25, FALSE, 0, 0),
       M("Na5", 2, 42, 32, FALSE, 0, 0),
       M("a6", 1, 48, 40, FALSE, 0, 0),
       M("a5", 1, 48, 32, FALSE, 0, 0),
       M("b6", 1, 49, 41, FALSE, 0, 0),
       M("b5", 1, 49, 33, FALSE, 0, 0),
       M("d6", 1, 51, 43, FALSE, 0, 0),
       M("d5", 1, 51, 35, FALSE, 0, 0),
       M("f6", 1, 53, 45, FALSE, 0, 0),
       M("f5", 1, 53, 37, FALSE, 0, 0),
       M("g6", 1, 54, 46, FALSE, 0, 0),
       M("g5", 1, 54, 38, FALSE, 0, 0),
       M("h6", 1, 55, 47, FALSE, 0, 0),
       M("h5", 1, 55, 39, FALSE, 0, 0),
       M("Rb8", 4, 56, 57, FALSE, 0, 0),
       M("Qe7", 5, 59, 52, FALSE, 0, 0),
       M("Qf6", 5, 59, 45, FALSE, 0, 0),
       M("Qg5", 5, 59, 38, FALSE, 0, 0),
       M("Qh4", 5, 59, 31, FALSE, 0, 0),
       M("Ke7", 6, 60, 52, FALSE, 0, 0),
       M("Be7", 3, 61, 52, FALSE, 0, 0),
       M("Bd6", 3, 61, 43, FALSE, 0, 0),
       M("Bc5", 3, 61, 34, FALSE, 0, 19),
       M("Bb4", 3, 61, 25, FALSE, 0, 0),
       M("Ba3", 3, 61, 16, FALSE, 0, 0),
       M("Nh6", 2, 62, 47, FALSE, 0, 0),
       M("Nf6", 2, 62, 45, FALSE, 0, 0),
       M("Nge7", 2, 62, 52, FALSE, 0, 0)>>],
    \* position 19
    [turn |-> "white", their_pawns |-> {36, 48, 49, 50, 51, 53, 54, 55}, is_checkmate |-> FALSE, is_stalemate |-> FALSE,
     legal_moves |-> <<
       M("Nc3", 2, 1, 18, FALSE, 0, 0),
       M("Na3", 2, 1, 16, FALSE, 0, 0),
       M("Qe2", 5, 3, 12, FALSE, 0, 0),
       M("Ke2", 6, 4, 12, FALSE, 0, 0),
       M("Kf1", 6, 4, 5, FALSE, 0, 0),
       M("Rg1", 4, 7, 6, FALSE, 0, 0),
       M("Rf1", 4, 7, 5, FALSE, 0, 0),
       M("a3", 1, 8, 16, FALSE, 0, 0),
       M("a4", 1, 8, 24, FALSE, 0, 0),
       M("b3", 1, 9, 17, FALSE, 0, 0),
       M("b4", 1, 9, 25, FALSE, 0, 0),
       M("c3", 1, 10, 18, FALSE, 0, 0),
       M("d3", 1, 11, 19, FALSE, 0, 0),
       M("d4", 1, 11, 27, FALSE, 0, 0),
       M("g3", 1, 14, 22, FALSE, 0, 0),
       M("g4", 1, 14, 30, FALSE, 0, 0),
       M("h3", 1, 15, 23, FALSE, 0, 0),
       M("h4", 1, 15, 31, FALSE, 0, 0),
       M("Ng5", 2, 21, 38, FALSE, 0, 0),
       M("Nh4", 2, 21, 31, FALSE, 0, 0),
       M("Nxe5", 2, 21, 36, TRUE, 0, 0),
       M("Nd4", 2, 21, 27, FALSE, 0, 0),
       M("Ng1", 2, 21, 6, FALSE, 0, 0),
       M("Bd5", 3, 26, 35, FALSE, 0, 0),
       M("Be6", 3, 26, 44, FALSE, 0, 0),
       M("Bxf7+", 3, 26, 53, TRUE, 0, 0),
       M("Bd3", 3, 26, 19, FALSE, 0, 0),
       M("Be2", 3, 26, 12, FALSE, 0, 0),
       M("Bf1", 3, 26, 5, FALSE, 0, 0),
       M("Bb5", 3, 26, 33, FALSE, 0, 0),
       M("Ba6", 3, 26, 40, FALSE, 0, 0),
       M("Bb3", 3, 26, 17, FALSE, 0, 0),
       M("O-O", 6, 4, 7, FALSE, 0, 20)>>],
    \* position 20
    [turn |-> "black", their_pawns |-> {8, 9, 10, 11, 13, 14, 15, 28}, is_checkmate |-> FALSE, is_stalemate |-> FALSE,
     legal_moves |-> <<
       M("Bd6", 3, 34, 43, FALSE, 0, 0),
       M("Be7", 3, 34, 52, FALSE, 0, 0),
       M("Bf8", 3, 34, 61, FALSE, 0, 0),
       M("Bd4", 3, 34, 27, FALSE, 0, 0),
       M("Be3", 3, 34, 20, FALSE, 0, 0),
       M("Bxf2+", 3, 34, 13, TRUE, 0, 0),
       M("Bb6", 3, 34, 41, FALSE, 0, 0),
       M("Bb4", 3, 34, 25, FALSE, 0, 0),
       M("Ba3", 3, 34, 16, FALSE, 0, 0),
       M("Nce7", 2, 42, 52, FALSE, 0, 0),
       M("Nb8", 2, 42, 57, FALSE, 0, 0),
       M("Nd4", 2, 42, 27, FALSE, 0, 0),
       M("Nb4", 2, 42, 25, FALSE, 0, 0),
       M("Na5", 2, 42, 32, FALSE, 0, 0),
       M("a6", 1, 48, 40, FALSE, 0, 0),
       M("a5", 1, 48, 32, FALSE, 0, 0),
       M("b6", 1, 49, 41, FALSE, 0, 0),
       M("b5", 1, 49, 33, FALSE, 0, 0),
       M("d6", 1, 51, 43, FALSE, 0, 0),
       M("d5", 1, 51, 35, FALSE, 0, 0),
       M("f6", 1, 53, 45, FALSE, 0, 0),
       M("f5", 1, 53, 37, FALSE, 0, 0),
       M("g6", 1, 54, 46, FALSE, 0, 0),
       M("g5", 1, 54, 38, FALSE, 0, 0),
       M("h6", 1, 55, 47, FALSE, 0, 0),
       M("h5", 1, 55, 39, FALSE, 0, 0),
       M("Rb8", 4, 56, 57, FALSE, 0, 0),
       M("Qe7", 5, 59, 52, FALSE, 0, 0),
       M("Qf6", 5, 59, 45, FALSE, 0, 0),
       M("Qg5", 5, 59, 38, FALSE, 0, 0),
       M("Qh4", 5, 59, 31, FALSE, 0, 0),
       M("Ke7", 6, 60, 52, FALSE, 0, 0),
       M("Kf8", 6, 60, 61, FALSE, 0, 0),
       M("Nh6", 2, 62, 47, FALSE, 0, 0),
       M("Nf6", 2, 62, 45, FALSE, 0, 0),
       M("Nge7", 2, 62, 52, FALSE, 0, 0)>>],
    \* position 21
    [turn |-> "white", their_pawns |-> {40, 49, 50, 51, 52, 53, 54, 55}, is_checkmate |-> FALSE, is_stalemate |-> FALSE,
     legal_moves |-> <<
       M("Nc3", 2, 1, 18, FALSE, 0, 0),
       M("Na3", 2, 1, 16, FALSE, 0, 0),
       M("Qe2", 5, 3, 12, FALSE, 0, 0),
       M("Qf3", 5, 3, 21, FALSE, 0, 0),
       M("Qg4", 5, 3, 30, FALSE, 0, 0),
       M("Qh5", 5, 3, 39, FALSE, 0, 0),
       M("Ke2", 6, 4, 12, FALSE, 0, 0),
       M("Be2", 3, 5, 12, FALSE, 0, 0),
       M("Bd3", 3, 5, 19, FALSE, 0, 0),
       M("Bc4", 3, 5, 26, FALSE, 0, 0),
       M("Bb5", 3, 5, 33, FALSE, 0, 0),
       M("Bxa6", 3, 5, 40, TRUE, 0, 0),
       M("Nh3", 2, 6, 23, FALSE, 0, 0),
       M("Nf3", 2, 6, 21, FALSE, 0, 0),
       M("Ne2", 2, 6, 12, FALSE, 0, 0),
       M("a3", 1, 8, 16, FALSE, 0, 0),
       M("a4", 1, 8, 24, FALSE, 0, 0),
       M("b3", 1, 9, 17, FALSE, 0, 0),
       M("b4", 1, 9, 25, FALSE, 0, 0),
       M("c3", 1, 10, 18, FALSE, 0, 0),
       M("c4", 1, 10, 26, FALSE, 0, 0),
       M("d3", 1, 11, 19, FALSE, 0, 0),
       M("d4", 1, 11, 27, FALSE, 0, 0),
       M("f3", 1, 13, 21, FALSE, 0, 0),
       M("f4", 1, 13, 29, FALSE, 0, 0),
       M("g3", 1, 14, 22, FALSE, 0, 0),
       M("g4", 1, 14, 30, FALSE, 0, 0),
       M("h3", 1, 15, 23, FALSE, 0, 0),
       M("h4", 1, 15, 31, FALSE, 0, 0),
       M("e5", 1, 28, 36, FALSE, 0, 22)>>],
    \* position 22
    [turn |-> "black", their_pawns |-> {8, 9, 10, 11, 13, 14, 15, 36}, is_checkmate |-> FALSE, is_stalemate |-> FALSE,
     legal_moves |-> <<
       M("a5", 1, 40, 32, FALSE, 0, 0),
       M("b6", 1, 49, 41, FALSE, 0, 0),
       M("b5", 1, 49, 33, FALSE, 0, 0),
       M("c6", 1, 50, 42, FALSE, 0, 0),
       M("c5", 1, 50, 34, FALSE, 0, 0),
       M("d6", 1, 51, 43, FALSE, 0, 0),
       M("d5", 1, 51, 35, FALSE, 0, 23),
       M("e6", 1, 52, 44, FALSE, 0, 0),
       M("f6", 1, 53, 45, FALSE, 0, 0),
       M("f5", 1, 53, 37, FALSE, 0, 0),
       M("g6", 1, 54, 46, FALSE, 0, 0),
       M("g5", 1, 54, 38, FALSE, 0, 0),
       M("h6", 1, 55, 47, FALSE, 0, 0),
       M("h5", 1, 55, 39, FALSE, 0, 0),
       M("Ra7", 4, 56, 48, FALSE, 0, 0),
       M("Nc6", 2, 57, 42, FALSE, 0, 0),
       M("Nh6", 2, 62, 47, FALSE, 0, 0),
       M("Nf6", 2, 62, 45, FALSE, 0, 0)>>],
    \* position 23
    [turn |-> "white", their_pawns |-> {35, 40, 49, 50, 52, 53, 54, 55}, is_checkmate |-> FALSE, is_stalemate |-> FALSE,
     legal_moves |-> <<
       M("Nc3", 2, 1, 18, FALSE, 0, 0),
       M("Na3", 2, 1, 16, FALSE, 0, 0),
       M("Qe2", 5, 3, 12, FALSE, 0, 0),
       M("Qf3", 5, 3, 21, FALSE, 0, 0),
       M("Qg4", 5, 3, 30, FALSE, 0, 0),
       M("Qh5", 5, 3, 39, FALSE, 0, 0),
       M("Ke2", 6, 4, 12, FALSE, 0, 0),
       M("Be2", 3, 5, 12, FALSE, 0, 0),
       M("Bd3", 3, 5, 19, FALSE, 0, 0),
       M("Bc4", 3, 5, 26, FALSE, 0, 0),
       M("Bb5+", 3, 5, 33, FALSE, 0, 0),
       M("Bxa6", 3, 5, 40, TRUE, 0, 0),
       M("Nh3", 2, 6, 23, FALSE, 0, 0),
       M("Nf3", 2, 6, 21, FALSE, 0, 0),
       M("Ne2", 2, 6, 12, FALSE, 0, 0),
       M("a3", 1, 8, 16, FALSE, 0, 0),
       M("a4", 1, 8, 24, FALSE, 0, 0),
       M("b3", 1, 9, 17, FALSE, 0, 0),
       M("b4", 1, 9, 25, FALSE, 0, 0),
       M("c3", 1, 10, 18, FALSE, 0, 0),
       M("c4", 1, 10, 26, FALSE, 0, 0),
       M("d3", 1, 11, 19, FALSE, 0, 0),
       M("d4", 1, 11, 27, FALSE, 0, 0),
       M("f3", 1, 13, 21, FALSE, 0, 0),
       M("f4", 1, 13, 29, FALSE, 0, 0),
       M("g3", 1, 14, 22, FALSE, 0, 0),
       M("g4", 1, 14, 30, FALSE, 0, 0),
       M("h3", 1, 15, 23, FALSE, 0, 0),
       M("h4", 1, 15, 31, FALSE, 0, 0),
       M("e6", 1, 36, 44, FALSE, 0, 0),
       M("exd6", 1, 36, 43, TRUE, 0, 24)>>],
    \* position 24
    [turn |-> "black", their_pawns |-> {8, 9, 10, 11, 13, 14, 15, 43}, is_checkmate |-> FALSE, is_stalemate |-> FALSE,
     legal_moves |-> <<
       M("a5", 1, 40, 32, FALSE, 0, 0),
       M("b6", 1, 49, 41, FALSE, 0, 0),
       M("b5", 1, 49, 33, FALSE, 0, 0),
       M("c6", 1, 50, 42, FALSE, 0, 0),
       M("c5", 1, 50, 34, FALSE, 0, 0),
       M("cxd6", 1, 50, 43, TRUE, 0, 0),
       M("e6", 1, 52, 44, FALSE, 0, 0),
       M("e5", 1, 52, 36, FALSE, 0, 0),
       M("exd6", 1, 52, 43, TRUE, 0, 0),
       M("f6", 1, 53, 45, FALSE, 0, 0),
       M("f5", 1, 53, 37, FALSE, 0, 0),
       M("g6", 1, 54, 46, FALSE, 0, 0),
       M("g5", 1, 54, 38, FALSE, 0, 0),
       M("h6", 1, 55, 47, FALSE, 0, 0),
       M("h5", 1, 55, 39, FALSE, 0, 0),
       M("Ra7", 4, 56, 48, FALSE, 0, 0),
       M("Nc6", 2, 57, 42, FALSE, 0, 0),
       M("Nd7", 2, 57, 51, FALSE, 0, 0),
       M("Bd7", 3, 58, 51, FALSE, 0, 0),
       M("Be6", 3, 58, 44, FALSE, 0, 0),
       M("Bf5", 3, 58, 37, FALSE, 0, 0),
       M("Bg4", 3, 58, 30, FALSE, 0, 0),
       M("Bh3", 3, 58, 23, FALSE, 0, 0),
       M("Qd7", 5, 59, 51, FALSE, 0, 0),
       M("Qxd6", 5, 59, 43, TRUE, 0, 0),
       M("Kd7", 6, 60, 51, FALSE, 0, 0),
       M("Nh6", 2, 62, 47, FALSE, 0, 0),
       M("Nf6", 2, 62, 45, FALSE, 0, 0)>>],
    \* position 25
    [turn |-> "black", their_pawns |-> {8, 9, 10, 11, 12, 13, 14, 31}, is_checkmate |-> FALSE, is_stalemate |-> FALSE,
     legal_moves |-> <<
       M("a6", 1, 48, 40, FALSE, 0, 0),
       M("a5", 1, 48, 32, FALSE, 0, 0),
       M("b6", 1, 49, 41, FALSE, 0, 0),
       M("b5", 1, 49, 33, FALSE, 0, 0),
       M("c6", 1, 50, 42, FALSE, 0, 0),
       M("c5", 1, 50, 34, FALSE, 0, 0),
       M("d6", 1, 51, 43, FALSE, 0, 0),
       M("d5", 1, 51, 35, FALSE, 0, 0),
       M("e6", 1, 52, 44, FALSE, 0, 0),
       M("e5", 1, 52, 36, FALSE, 0, 0),
       M("f6", 1, 53, 45, FALSE, 0, 0),
       M("f5", 1, 53, 37, FALSE, 0, 0),
       M("g6", 1, 54, 46, FALSE, 0, 0),
       M("g5", 1, 54, 38, FALSE, 0, 26),
       M("h6", 1, 55, 47, FALSE, 0, 0),
       M("h5", 1, 55, 39, FALSE, 0, 0),
       M("Nc6", 2, 57, 42, FALSE, 0, 0),
       M("Na6", 2, 57, 40, FALSE, 0, 0),
       M("Nh6", 2, 62, 47, FALSE, 0, 0),
       M("Nf6", 2, 62, 45, FALSE, 0, 0)>>],
    \* position 26
    [turn |-> "white", their_pawns |-> {38, 48, 49, 50, 51, 52, 53, 55}, is_checkmate |-> FALSE, is_stalemate |-> FALSE,
     legal_moves |-> <<
       M("Nc3", 2, 1, 18, FALSE, 0, 0),
       M("Na3", 2, 1, 16, FALSE, 0, 0),
       M("Nh3", 2, 6, 23, FALSE, 0, 0),
       M("Nf3", 2, 6, 21, FALSE, 0, 0),
       M("Rh2", 4, 7, 15, FALSE, 0, 0),
       M("Rh3", 4, 7, 23, FALSE, 0, 0),
       M("a3", 1, 8, 16, FALSE, 0, 0),
       M("a4", 1, 8, 24, FALSE, 0, 0),
       M("b3", 1, 9, 17, FALSE, 0, 0),
       M("b4", 1, 9, 25, FALSE, 0, 0),
       M("c3", 1, 10, 18, FALSE, 0, 0),
       M("c4", 1, 10, 26, FALSE, 0, 0),
       M("d3", 1, 11, 19, FALSE, 0, 0),
       M("d4", 1, 11, 27, FALSE, 0, 0),
       M("e3", 1, 12, 20, FALSE, 0, 0),
       M("e4", 1, 12, 28, FALSE, 0, 0),
       M("f3", 1, 13, 21, FALSE, 0, 0),
       M("f4", 1, 13, 29, FALSE, 0, 0),
       M("g3", 1, 14, 22, FALSE, 0, 0),
       M("g4", 1, 14, 30, FALSE, 0, 0),
       M("h5", 1, 31, 39, FALSE, 0, 0),
       M("hxg5", 1, 31, 38, TRUE, 0, 27)>>],
    \* position 27
    [turn |-> "black", their_pawns |-> {8, 9, 10, 11, 12, 13, 14, 38}, is_checkmate |-> FALSE, is_stalemate |-> FALSE,
     legal_moves |-> <<
       M("a6", 1, 48, 40, FALSE, 0, 0),
       M("a5", 1, 48, 32, FALSE, 0, 0),
       M("b6", 1, 49, 41, FALSE, 0, 0),
       M("b5", 1, 49, 33, FALSE, 0, 0),
       M("c6", 1, 50, 42, FALSE, 0, 0),
       M("c5", 1, 50, 34, FALSE, 0, 0),
       M("d6", 1, 51, 43, FALSE, 0, 0),
       M("d5", 1, 51, 35, FALSE, 0, 0),
       M("e6", 1, 52, 44, FALSE, 0, 0),
       M("e5", 1, 52, 36, FALSE, 0, 0),
       M("f6", 1, 53, 45, FALSE, 0, 0),
       M("f5", 1, 53, 37, FALSE, 0, 0),
       M("h6", 1, 55, 47, FALSE, 0, 0),
       M("h5", 1, 55, 39, FALSE, 0, 0),
       M("Nc6", 2, 57, 42, FALSE, 0, 0),
       M("Na6", 2, 57, 40, FALSE, 0, 0),
       M("Bg7", 3, 61, 54, FALSE, 0, 0),
       M("Bh6", 3, 61, 47, FALSE, 0, 0),
       M("Nh6", 2, 62, 47, FALSE, 0, 0),
       M("Nf6", 2, 62, 45, FALSE, 0, 28)>>],
    \* position 28
    [turn |-> "white", their_pawns |-> {48, 49, 50, 51, 52, 53, 55}, is_checkmate |-> FALSE, is_stalemate |-> FALSE,
     legal_moves |-> <<
       M("Nc3", 2, 1, 18, FALSE, 0, 0),
       M("Na3", 2, 1, 16, FALSE, 0, 0),
       M("Nh3", 2, 6, 23, FALSE, 0, 0),
       M("Nf3", 2, 6, 21, FALSE, 0, 0),
       M("Rh2", 4, 7, 15, FALSE, 0, 0),
       M("Rh3", 4, 7, 23, FALSE, 0, 0),
       M("Rh4", 4, 7, 31, FALSE, 0, 0),
       M("Rh5", 4, 7, 39, FALSE, 0, 0),
       M("Rh6", 4, 7, 47, FALSE, 0, 0),
       M("Rxh7", 4, 7, 55, TRUE, 0, 0),
       M("a3", 1, 8, 16, FALSE, 0, 0),
       M("a4", 1, 8, 24, FALSE, 0, 0),
       M("b3", 1, 9, 17, FALSE, 0, 0),
       M("b4", 1, 9, 25, FALSE, 0, 0),
       M("c3", 1, 10, 18, FALSE, 0, 0),
       M("c4", 1, 10, 26, FALSE, 0, 0),
       M("d3", 1, 11, 19, FALSE, 0, 0),
       M("d4", 1, 11, 27, FALSE, 0, 0),
       M("e3", 1, 12, 20, FALSE, 0, 0),
       M("e4", 1, 12, 28, FALSE, 0, 0),
       M("f3", 1, 13, 21, FALSE, 0, 0),
       M("f4", 1, 13, 29, FALSE, 0, 0),
       M("g3", 1, 14, 22, FALSE, 0, 0),
       M("g4", 1, 14, 30, FALSE, 0, 0),
       M("g6", 1, 38, 46, FALSE, 0, 29),
       M("gxf6", 1, 38, 45, TRUE, 0, 0)>>],
    \* position 29
    [turn |-> "black", their_pawns |-> {8, 9, 10, 11, 12, 13, 14, 46}, is_checkmate |-> FALSE, is_stalemate |-> FALSE,
     legal_moves |-> <<
       M("Ng8", 2, 45, 62, FALSE, 0, 30),
       M("Ng4", 2, 45, 30, FALSE, 0, 0),
       M("Nh5", 2, 45, 39, FALSE, 0, 0),
       M("Ne4", 2, 45, 28, FALSE, 0, 0),
       M("Nd5", 2, 45, 35, FALSE, 0, 0),
       M("a6", 1, 48, 40, FALSE, 0, 0),
       M("a5", 1, 48, 32, FALSE, 0, 0),
       M("b6", 1, 49, 41, FALSE, 0, 0),
       M("b5", 1, 49, 33, FALSE, 0, 0),
       M("c6", 1, 50, 42, FALSE, 0, 0),
       M("c5", 1, 50, 34, FALSE, 0, 0),
       M("d6", 1, 51, 43, FALSE, 0, 0),
       M("d5", 1, 51, 35, FALSE, 0, 0),
       M("e6", 1, 52, 44, FALSE, 0, 0),
       M("e5", 1, 52, 36, FALSE, 0, 0),
       M("fxg6", 1, 53, 46, TRUE, 0, 0),
       M("h6", 1, 55, 47, FALSE, 0, 0),
       M("h5", 1, 55, 39, FALSE, 0, 0),
       M("hxg6", 1, 55, 46, TRUE, 0, 0),
       M("Nc6", 2, 57, 42, FALSE, 0, 0),
       M("Na6", 2, 57, 40, FALSE, 0, 0),
       M("Bg7", 3, 61, 54, FALSE, 0, 0),
       M("Bh6", 3, 61, 47, FALSE, 0, 0),
       M("Rg8", 4, 63, 62, FALSE, 0, 0)>>],
    \* position 30
    [turn |-> "white", their_pawns |-> {48, 49, 50, 51, 52, 53, 55}, is_checkmate |-> FALSE, is_stalemate |-> FALSE,
     legal_moves |-> <<
       M("Nc3", 2, 1, 18, FALSE, 0, 0),
       M("Na3", 2, 1, 16, FALSE, 0, 0),
       M("Nh3", 2, 6, 23, FALSE, 0, 0),
       M("Nf3", 2, 6, 21, FALSE, 0, 0),
       M("Rh2", 4, 7, 15, FALSE, 0, 0),
       M("Rh3", 4, 7, 23, FALSE, 0, 0),
       M("Rh4", 4, 7, 31, FALSE, 0, 0),
       M("Rh5", 4, 7, 39, FALSE, 0, 0),
       M("Rh6", 4, 7, 47, FALSE, 0, 0),
       M("Rxh7", 4, 7, 55, TRUE, 0, 0),
       M("a3", 1, 8, 16, FALSE, 0, 0),
       M("a4", 1, 8, 24, FALSE, 0, 0),
       M("b3", 1, 9, 17, FALSE, 0, 0),
       M("b4", 1, 9, 25, FALSE, 0, 0),
       M("c3", 1, 10, 18, FALSE, 0, 0),
       M("c4", 1, 10, 26, FALSE, 0, 0),
       M("d3", 1, 11, 19, FALSE, 0, 0),
       M("d4", 1, 11, 27, FALSE, 0, 0),
       M("e3", 1, 12, 20, FALSE, 0, 0),
       M("e4", 1, 12, 28, FALSE, 0, 0),
       M("f3", 1, 13, 21, FALSE, 0, 0),
       M("f4", 1, 13, 29, FALSE, 0, 0),
       M("g3", 1, 14, 22, FALSE, 0, 0),
       M("g4", 1, 14, 30, FALSE, 0, 0),
       M("g7", 1, 46, 54, FALSE, 0, 0),
       M("gxf7+", 1, 46, 53, TRUE, 0, 0),
       M("gxh7", 1, 46, 55, TRUE, 0, 31)>>],
    \* position 31
    [turn |-> "black", their_pawns |-> {8, 9, 10, 11, 12, 13, 14, 55}, is_checkmate |-> FALSE, is_stalemate |-> FALSE,
     legal_moves |-> <<
       M("a6", 1, 48, 40, FALSE, 0, 32),
       M("a5", 1, 48, 32, FALSE, 0, 0),
       M("b6", 1, 49, 41, FALSE, 0, 0),
       M("b5", 1, 49, 33, FALSE, 0, 0),
       M("c6", 1, 50, 42, FALSE, 0, 0),
       M("c5", 1, 50, 34, FALSE, 0, 0),
       M("d6", 1, 51, 43, FALSE, 0, 0),
       M("d5", 1, 51, 35, FALSE, 0, 0),
       M("e6", 1, 52, 44, FALSE, 0, 0),
       M("e5", 1, 52, 36, FALSE, 0, 0),
       M("f6", 1, 53, 45, FALSE, 0, 0),
       M("f5", 1, 53, 37, FALSE, 0, 0),
       M("Nc6", 2, 57, 42, FALSE, 0, 0),
       M("Na6", 2, 57, 40, FALSE, 0, 0),
       M("Bg7", 3, 61, 54, FALSE, 0, 0),
       M("Bh6", 3, 61, 47, FALSE, 0, 0),
       M("Nh6", 2, 62, 47, FALSE, 0, 0),
       M("Nf6", 2, 62, 45, FALSE, 0, 0),
       M("Rxh7", 4, 63, 55, TRUE, 0, 0)>>],
    \* position 32
    [turn |-> "white", their_pawns |-> {40, 49, 50, 51, 52, 53}, is_checkmate |-> FALSE, is_stalemate |-> FALSE,
     legal_moves |-> <<
       M("Nc3", 2, 1, 18, FALSE, 0, 0),
       M("Na3", 2, 1, 16, FALSE, 0, 0),
       M("Nh3", 2, 6, 23, FALSE, 0, 0),
       M("Nf3", 2, 6, 21, FALSE, 0, 0),
       M("Rh2", 4, 7, 15, FALSE, 0, 0),
       M("Rh3", 4, 7, 23, FALSE, 0, 0),
       M("Rh4", 4, 7, 31, FALSE, 0, 0),
       M("Rh5", 4, 7, 39, FALSE, 0, 0),
       M("Rh6", 4, 7, 47, FALSE, 0, 0),
       M("a3", 1, 8, 16, FALSE, 0, 0),
       M("a4", 1, 8, 24, FALSE, 0, 0),
       M("b3", 1, 9, 17, FALSE, 0, 0),
       M("b4", 1, 9, 25, FALSE, 0, 0),
       M("c3", 1, 10, 18, FALSE, 0, 0),
       M("c4", 1, 10, 26, FALSE, 0, 0),
       M("d3", 1, 11, 19, FALSE, 0, 0),
       M("d4", 1, 11, 27, FALSE, 0, 0),
       M("e3", 1, 12, 20, FALSE, 0, 0),
       M("e4", 1, 12, 28, FALSE, 0, 0),
       M("f3", 1, 13, 21, FALSE, 0, 0),
       M("f4", 1, 13, 29, FALSE, 0, 0),
       M("g3", 1, 14, 22, FALSE, 0, 0),
       M("g4", 1, 14, 30, FALSE, 0, 0),
       M("hxg8=Q", 1, 55, 62, TRUE, 5, 33),
       M("hxg8=R", 1, 55, 62, TRUE, 4, 0),
       M("hxg8=B", 1, 55, 62, TRUE, 3, 0),
       M("hxg8=N", 1, 55, 62, TRUE, 2, 34)>>],
    \* position 33
    [turn |-> "black", their_pawns |-> {8, 9, 10, 11, 12, 13, 14}, is_checkmate |-> FALSE, is_stalemate |-> FALSE,
     legal_moves |-> <<
       M("a5", 1, 40, 32, FALSE, 0, 0),
       M("b6", 1, 49, 41, FALSE, 0, 0),
       M("b5", 1, 49, 33, FALSE, 0, 0),
       M("c6", 1, 50, 42, FALSE, 0, 0),
       M("c5", 1, 50, 34, FALSE, 0, 0),
       M("d6", 1, 51, 43, FALSE, 0, 0),
       M("d5", 1, 51, 35, FALSE, 0, 0),
       M("e6", 1, 52, 44, FALSE, 0, 0),
       M("e5", 1, 52, 36, FALSE, 0, 0),
       M("f6", 1, 53, 45, FALSE, 0, 0),
       M("f5", 1, 53, 37, FALSE, 0, 0),
       M("Ra7", 4, 56, 48, FALSE, 0, 0),
       M("Nc6", 2, 57, 42, FALSE, 0, 0),
       M("Rxg8", 4, 63, 62, TRUE, 0, 0),
       M("Rh7", 4, 63, 55, FALSE, 0, 0),
       M("Rh6", 4, 63, 47, FALSE, 0, 0),
       M("Rh5", 4, 63, 39, FALSE, 0, 0),
       M("Rh4", 4, 63, 31, FALSE, 0, 0),
       M("Rh3", 4, 63, 23, FALSE, 0, 0),
       M("Rh2", 4, 63, 15, FALSE, 0, 0),
       M("Rxh1", 4, 63, 7, TRUE, 0, 0)>>],
    \* position 34
    [turn |-> "black", their_pawns |-> {8, 9, 10, 11, 12, 13, 14}, is_checkmate |-> FALSE, is_stalemate |-> FALSE,
     legal_moves |-> <<
       M("a5", 1, 40, 32, FALSE, 0, 0),
       M("b6", 1, 49, 41, FALSE, 0, 0),
       M("b5", 1, 49, 33, FALSE, 0, 0),
       M("c6", 1, 50, 42, FALSE, 0, 0),
       M("c5", 1, 50, 34, FALSE, 0, 0),
       M("d6", 1, 51, 43, FALSE, 0, 0),
       M("d5", 1, 51, 35, FALSE, 0, 0),
       M("e6", 1, 52, 44, FALSE, 0, 0),
       M("e5", 1, 52, 36, FALSE, 0, 0),
       M("f6", 1, 53, 45, FALSE, 0, 0),
       M("f5", 1, 53, 37, FALSE, 0, 0),
       M("Ra7", 4, 56, 48, FALSE, 0, 0),
       M("Nc6", 2, 57, 42, FALSE, 0, 0),
       M("Bg7", 3, 61, 54, FALSE, 0, 0),
       M("Bh6", 3, 61, 47, FALSE, 0, 0),
       M("Rxg8", 4, 63, 62, TRUE, 0, 0),
       M("Rh7", 4, 63, 55, FALSE, 0, 0),
       M("Rh6", 4, 63, 47, FALSE, 0, 0),
       M("Rh5", 4, 63, 39, FALSE, 0, 0),
       M("Rh4", 4, 63, 31, FALSE, 0, 0),
       M("Rh3", 4, 63, 23, FALSE, 0, 0),
       M("Rh2", 4, 63, 15, FALSE, 0, 0),
       M("Rxh1", 4, 63, 7, TRUE, 0, 0)>>],
    \* position 35
    [turn |-> "black", their_pawns |-> {8, 9, 10, 11, 13, 14, 15, 20}, is_checkmate |-> FALSE, is_stalemate |-> FALSE,
     legal_moves |-> <<
       M("a6", 1, 48, 40, FALSE, 0, 0),
       M("a5", 1, 48, 32, FALSE, 0, 36),
       M("b6", 1, 49, 41, FALSE, 0, 0),
       M("b5", 1, 49, 33, FALSE, 0, 0),
       M("c6", 1, 50, 42, FALSE, 0, 0),
       M("c5", 1, 50, 34, FALSE, 0, 0),
       M("d6", 1, 51, 43, FALSE, 0, 0),
       M("d5", 1, 51, 35, FALSE, 0, 0),
       M("e6", 1, 52, 44, FALSE, 0, 0),
       M("e5", 1, 52, 36, FALSE, 0, 0),
       M("f6", 1, 53, 45, FALSE, 0, 0),
       M("f5", 1, 53, 37, FALSE, 0, 0),
       M("g6", 1, 54, 46, FALSE, 0, 0),
       M("g5", 1, 54, 38, FALSE, 0, 0),
       M("h6", 1, 55, 47, FALSE, 0, 0),
       M("h5", 1, 55, 39, FALSE, 0, 0),
       M("Nc6", 2, 57, 42, FALSE, 0, 0),
       M("Na6", 2, 57, 40, FALSE, 0, 0),
       M("Nh6", 2, 62, 47, FALSE, 0, 0),
       M("Nf6", 2, 62, 45, FALSE, 0, 0)>>],
    \* position 36
    [turn |-> "white", their_pawns |-> {32, 49, 50, 51, 52, 53, 54, 55}, is_checkmate |-> FALSE, is_stalemate |-> FALSE,
     legal_moves |-> <<
       M("Nc3", 2, 1, 18, FALSE, 0, 0),
       M("Na3", 2, 1, 16, FALSE, 0, 0),
       M("Qe2", 5, 3, 12, FALSE, 0, 0),
       M("Qf3", 5, 3, 21, FALSE, 0, 0),
       M("Qg4", 5, 3, 30, FALSE, 0, 0),
       M("Qh5", 5, 3, 39, FALSE, 0, 37),
       M("Ke2", 6, 4, 12, FALSE, 0, 0),
       M("Be2", 3, 5, 12, FALSE, 0, 0),
       M("Bd3", 3, 5, 19, FALSE, 0, 0),
       M("Bc4", 3, 5, 26, FALSE, 0, 0),
       M("Bb5", 3, 5, 33, FALSE, 0, 0),
       M("Ba6", 3, 5, 40, FALSE, 0, 0),
       M("Nh3", 2, 6, 23, FALSE, 0, 0),
       M("Nf3", 2, 6, 21, FALSE, 0, 0),
       M("Ne2", 2, 6, 12, FALSE, 0, 0),
       M("a3", 1, 8, 16, FALSE, 0, 0),
       M("a4", 1, 8, 24, FALSE, 0, 0),
       M("b3", 1, 9, 17, FALSE, 0, 0),
       M("b4", 1, 9, 25, FALSE, 0, 0),
       M("c3", 1, 10, 18, FALSE, 0, 0),
       M("c4", 1, 10, 26, FALSE, 0, 0),
       M("d3", 1, 11, 19, FALSE, 0, 0),
       M("d4", 1, 11, 27, FALSE, 0, 0),
       M("f3", 1, 13, 21, FALSE, 0, 0),
       M("f4", 1, 13, 29, FALSE, 0, 0),
       M("g3", 1, 14, 22, FALSE, 0, 0),
       M("g4", 1, 14, 30, FALSE, 0, 0),
       M("h3", 1, 15, 23, FALSE, 0, 0),
       M("h4", 1, 15, 31, FALSE, 0, 0),
       M("e4", 1, 20, 28, FALSE, 0, 0)>>],
    \* position 37
    [turn |-> "black", their_pawns |-> {8, 9, 10, 11, 13, 14, 15, 20}, is_checkmate |-> FALSE, is_stalemate |-> FALSE,
     legal_moves |-> <<
       M("a4", 1, 32, 24, FALSE, 0, 0),
       M("b6", 1, 49, 41, FALSE, 0, 0),
       M("b5", 1, 49, 33, FALSE, 0, 0),
       M("c6", 1, 50, 42, FALSE, 0, 0),
       M("c5", 1, 50, 34, FALSE, 0, 0),
       M("d6", 1, 51, 43, FALSE, 0, 0),
       M("d5", 1, 51, 35, FALSE, 0, 0),
       M("e6", 1, 52, 44, FALSE, 0, 0),
       M("e5", 1, 52, 36, FALSE, 0, 0),
       M("g6", 1, 54, 46, FALSE, 0, 0),
       M("g5", 1, 54, 38, FALSE, 0, 0),
       M("h6", 1, 55, 47, FALSE, 0, 0),
       M("Ra7", 4, 56, 48, FALSE, 0, 0),
       M("Ra6", 4, 56, 40, FALSE, 0, 38),
       M("Nc6", 2, 57, 42, FALSE, 0, 0),
       M("Na6", 2, 57, 40, FALSE, 0, 0),
       M("Nh6", 2, 62, 47, FALSE, 0, 0),
       M("Nf6", 2, 62, 45, FALSE, 0, 0)>>],
    \* position 38
    [turn |-> "white", their_pawns |-> {32, 49, 50, 51, 52, 53, 54, 55}, is_checkmate |-> FALSE, is_stalemate |-> FALSE,
     legal_moves |-> <<
       M("Nc3", 2, 1, 18, FALSE, 0, 0),
       M("Na3", 2, 1, 16, FALSE, 0, 0),
       M("Kd1", 6, 4, 3, FALSE, 0, 0),
       M("Ke2", 6, 4, 12, FALSE, 0, 0),
       M("Be2", 3, 5, 12, FALSE, 0, 0),
       M("Bd3", 3, 5, 19, FALSE, 0, 0),
       M("Bc4", 3, 5, 26, FALSE, 0, 0),
       M("Bb5", 3, 5, 33, FALSE, 0, 0),
       M("Bxa6", 3, 5, 40, TRUE, 0, 0),
       M("Nh3", 2, 6, 23, FALSE, 0, 0),
       M("Nf3", 2, 6, 21, FALSE, 0, 0),
       M("Ne2", 2, 6, 12, FALSE, 0, 0),
       M("a3", 1, 8, 16, FALSE, 0, 0),
       M("a4", 1, 8, 24, FALSE, 0, 0),
       M("b3", 1, 9, 17, FALSE, 0, 0),
       M("b4", 1, 9, 25, FALSE, 0, 0),
       M("c3", 1, 10, 18, FALSE, 0, 0),
       M("c4", 1, 10, 26, FALSE, 0, 0),
       M("d3", 1, 11, 19, FALSE, 0, 0),
       M("d4", 1, 11, 27, FALSE, 0, 0),
       M("f3", 1, 13, 21, FALSE, 0, 0),
       M("f4", 1, 13, 29, FALSE, 0, 0),
       M("g3", 1, 14, 22, FALSE, 0, 0),
       M("g4", 1, 14, 30, FALSE, 0, 0),
       M("h3", 1, 15, 23, FALSE, 0, 0),
       M("h4", 1, 15, 31, FALSE, 0, 0),
       M("e4", 1, 20, 28, FALSE, 0, 0),
       M("Qg5", 5, 39, 38, FALSE, 0, 0),
       M("Qf5", 5, 39, 37, FALSE, 0, 0),
       M("Qe5", 5, 39, 36, FALSE, 0, 0),
       M("Qd5", 5, 39, 35, FALSE, 0, 0),
       M("Qc5", 5, 39, 34, FALSE, 0, 0),
       M("Qb5", 5, 39, 33, FALSE, 0, 0),
       M("Qxa5", 5, 39, 32, TRUE, 0, 39),
       M("Qh6", 5, 39, 47, FALSE, 0, 0),
       M("Qxh7", 5, 39, 55, TRUE, 0, 0),
       M("Qh4", 5, 39, 31, FALSE, 0, 0),
       M("Qh3", 5, 39, 23, FALSE, 0, 0),
       M("Qg6", 5, 39, 46, FALSE, 0, 0),
       M("Qxf7+", 5, 39, 53, TRUE, 0, 0),
       M("Qg4", 5, 39, 30, FALSE, 0, 0),
       M("Qf3", 5, 39, 21, FALSE, 0, 0),
       M("Qe2", 5, 39, 12, FALSE, 0, 0),
       M("Qd1", 5, 39, 3, FALSE, 0, 0)>>],
    \* position 39
    [turn |-> "black", their_pawns |-> {8, 9, 10, 11, 13, 14, 15, 20}, is_checkmate |-> FALSE, is_stalemate |-> FALSE,
     legal_moves |-> <<
       M("Rb6", 4, 40, 41, FALSE, 0, 0),
       M("Rc6", 4, 40, 42, FALSE, 0, 0),
       M("Rd6", 4, 40, 43, FALSE, 0, 0),
       M("Re6", 4, 40, 44, FALSE, 0, 0),
       M("Rf6", 4, 40, 45, FALSE, 0, 0),
       M("Rg6", 4, 40, 46, FALSE, 0, 0),
       M("Rh6", 4, 40, 47, FALSE, 0, 0),
       M("Ra7", 4, 40, 48, FALSE, 0, 0),
       M("Ra8", 4, 40, 56, FALSE, 0, 0),
       M("Rxa5", 4, 40, 32, TRUE, 0, 0),
       M("b6", 1, 49, 41, FALSE, 0, 0),
       M("b5", 1, 49, 33, FALSE, 0, 0),
       M("c6", 1, 50, 42, FALSE, 0, 0),
       M("c5", 1, 50, 34, FALSE, 0, 0),
       M("d6", 1, 51, 43, FALSE, 0, 0),
       M("d5", 1, 51, 35, FALSE, 0, 0),
       M("e6", 1, 52, 44, FALSE, 0, 0),
       M("e5", 1, 52, 36, FALSE, 0, 0),
       M("f6", 1, 53, 45, FALSE, 0, 0),
       M("f5", 1, 53, 37, FALSE, 0, 0),
       M("g6", 1, 54, 46, FALSE, 0, 0),
       M("g5", 1, 54, 38, FALSE, 0, 0),
       M("h6", 1, 55, 47, FALSE, 0, 0),
       M("h5", 1, 55, 39, FALSE, 0, 40),
       M("Nc6", 2, 57, 42, FALSE, 0, 0),
       M("Nh6", 2, 62, 47, FALSE, 0, 0),
       M("Nf6", 2, 62, 45, FALSE, 0, 0)>>],
    \* position 40
    [turn |-> "white", their_pawns |-> {39, 49, 50, 51, 52, 53, 54}, is_checkmate |-> FALSE, is_stalemate |-> FALSE,
     legal_moves |-> <<
       M("Nc3", 2, 1, 18, FALSE, 0, 0),
       M("Na3", 2, 1, 16, FALSE, 0, 0),
       M("Kd1", 6, 4, 3, FALSE, 0, 0),
       M("Ke2", 6, 4, 12, FALSE, 0, 0),
       M("Be2", 3, 5, 12, FALSE, 0, 0),
       M("Bd3", 3, 5, 19, FALSE, 0, 0),
       M("Bc4", 3, 5, 26, FALSE, 0, 0),
       M("Bb5", 3, 5, 33, FALSE, 0, 0),
       M("Bxa6", 3, 5, 40, TRUE, 0, 0),
       M("Nh3", 2, 6, 23, FALSE, 0, 0),
       M("Nf3", 2, 6, 21, FALSE, 0, 0),
       M("Ne2", 2, 6, 12, FALSE, 0, 0),
       M("a3", 1, 8, 16, FALSE, 0, 0),
       M("a4", 1, 8, 24, FALSE, 0, 0),
       M("b3", 1, 9, 17, FALSE, 0, 0),
       M("b4", 1, 9, 25, FALSE, 0, 0),
       M("c3", 1, 10, 18, FALSE, 0, 0),
       M("c4", 1, 10, 26, FALSE, 0, 0),
       M("d3", 1, 11, 19, FALSE, 0, 0),
       M("d4", 1, 11, 27, FALSE, 0, 0),
       M("f3", 1, 13, 21, FALSE, 0, 0),
       M("f4", 1, 13, 29, FALSE, 0, 0),
       M("g3", 1, 14, 22, FALSE, 0, 0),
       M("g4", 1, 14, 30, FALSE, 0, 0),
       M("h3", 1, 15, 23, FALSE, 0, 0),
       M("h4", 1, 15, 31, FALSE, 0, 41),
       M("e4", 1, 20, 28, FALSE, 0, 0),
       M("Qb5", 5, 32, 33, FALSE, 0, 0),
       M("Qc5", 5, 32, 34, FALSE, 0, 0),
       M("Qd5", 5, 32, 35, FALSE, 0, 0),
       M("Qe5", 5, 32, 36, FALSE, 0, 0),
       M("Qf5", 5, 32, 37, FALSE, 0, 0),
       M("Qg5", 5, 32, 38, FALSE, 0, 0),
       M("Qxh5", 5, 32, 39, TRUE, 0, 0),
       M("Qxa6", 5, 32, 40, TRUE, 0, 0),
       M("Qa4", 5, 32, 24, FALSE, 0, 0),
       M("Qa3", 5, 32, 16, FALSE, 0, 0),
       M("Qb6", 5, 32, 41, FALSE, 0, 0),
       M("Qxc7", 5, 32, 50, TRUE, 0, 0),
       M("Qb4", 5, 32, 25, FALSE, 0, 0),
       M("Qc3", 5, 32, 18, FALSE, 0, 0)>>],
    \* position 41
    [turn |-> "black", their_pawns |-> {8, 9, 10, 11, 13, 14, 20, 31}, is_checkmate |-> FALSE, is_stalemate |-> FALSE,
     legal_moves |-> <<
       M("Rb6", 4, 40, 41, FALSE, 0, 0),
       M("Rc6", 4, 40, 42, FALSE, 0, 0),
       M("Rd6", 4, 40, 43, FALSE, 0, 0),
       M("Re6", 4, 40, 44, FALSE, 0, 0),
       M("Rf6", 4, 40, 45, FALSE, 0, 0),
       M("Rg6", 4, 40, 46, FALSE, 0, 0),
       M("Rah6", 4, 40, 47, FALSE, 0, 42),
       M("Ra7", 4, 40, 48, FALSE, 0, 0),
       M("Ra8", 4, 40, 56, FALSE, 0, 0),
       M("Rxa5", 4, 40, 32, TRUE, 0, 0),
       M("b6", 1, 49, 41, FALSE, 0, 0),
       M("b5", 1, 49, 33, FALSE, 0, 0),
       M("c6", 1, 50, 42, FALSE, 0, 0),
       M("c5", 1, 50, 34, FALSE, 0, 0),
       M("d6", 1, 51, 43, FALSE, 0, 0),
       M("d5", 1, 51, 35, FALSE, 0, 0),
       M("e6", 1, 52, 44, FALSE, 0, 0),
       M("e5", 1, 52, 36, FALSE, 0, 0),
       M("f6", 1, 53, 45, FALSE, 0, 0),
       M("f5", 1, 53, 37, FALSE, 0, 0),
       M("g6", 1, 54, 46, FALSE, 0, 0),
       M("g5", 1, 54, 38, FALSE, 0, 0),
       M("Nc6", 2, 57, 42, FALSE, 0, 0),
       M("Nh6", 2, 62, 47, FALSE, 0, 0),
       M("Nf6", 2, 62, 45, FALSE, 0, 0),
       M("Rh7", 4, 63, 55, FALSE, 0, 0),
       M("Rhh6", 4, 63, 47, FALSE, 0, 0)>>],
    \* position 42
    [turn |-> "white", their_pawns |-> {39, 49, 50, 51, 52, 53, 54}, is_checkmate |-> FALSE, is_stalemate |-> FALSE,
     legal_moves |-> <<
       M("Nc3", 2, 1, 18, FALSE, 0, 0),
       M("Na3", 2, 1, 16, FALSE, 0, 0),
       M("Kd1", 6, 4, 3, FALSE, 0, 0),
       M("Ke2", 6, 4, 12, FALSE, 0, 0),
       M("Be2", 3, 5, 12, FALSE, 0, 0),
       M("Bd3", 3, 5, 19, FALSE, 0, 0),
       M("Bc4", 3, 5, 26, FALSE, 0, 0),
       M("Bb5", 3, 5, 33, FALSE, 0, 0),
       M("Ba6", 3, 5, 40, FALSE, 0, 0),
       M("Nh3", 2, 6, 23, FALSE, 0, 0),
       M("Nf3", 2, 6, 21, FALSE, 0, 0),
       M("Ne2", 2, 6, 12, FALSE, 0, 0),
       M("Rh2", 4, 7, 15, FALSE, 0, 0),
       M("Rh3", 4, 7, 23, FALSE, 0, 0),
       M("a3", 1, 8, 16, FALSE, 0, 0),
       M("a4", 1, 8, 24, FALSE, 0, 0),
       M("b3", 1, 9, 17, FALSE, 0, 0),
       M("b4", 1, 9, 25, FALSE, 0, 0),
       M("c3", 1, 10, 18, FALSE, 0, 0),
       M("c4", 1, 10, 26, FALSE, 0, 0),
       M("d3", 1, 11, 19, FALSE, 0, 0),
       M("d4", 1, 11, 27, FALSE, 0, 0),
       M("f3", 1, 13, 21, FALSE, 0, 0),
       M("f4", 1, 13, 29, FALSE, 0, 0),
       M("g3", 1, 14, 22, FALSE, 0, 0),
       M("g4", 1, 14, 30, FALSE, 0, 0),
       M("e4", 1, 20, 28, FALSE, 0, 0),
       M("Qb5", 5, 32, 33, FALSE, 0, 0),
       M("Qc5", 5, 32, 34, FALSE, 0, 0),
       M("Qd5", 5, 32, 35, FALSE, 0, 0),
       M("Qe5", 5, 32, 36, FALSE, 0, 0),
       M("Qf5", 5, 32, 37, FALSE, 0, 0),
       M("Qg5", 5, 32, 38, FALSE, 0, 0),
       M("Qxh5", 5, 32, 39, TRUE, 0, 0),
       M("Qa6", 5, 32, 40, FALSE, 0, 0),
       M("Qa7", 5, 32, 48, FALSE, 0, 0),
       M("Qa8", 5, 32, 56, FALSE, 0, 0),
       M("Qa4", 5, 32, 24, FALSE, 0, 0),
       M("Qa3", 5, 32, 16, FALSE, 0, 0),
       M("Qb6", 5, 32, 41, FALSE, 0, 0),
       M("Qxc7", 5, 32, 50, TRUE, 0, 43),
       M("Qb4", 5, 32, 25, FALSE, 0, 0),
       M("Qc3", 5, 32, 18, FALSE, 0, 0)>>],
    \* position 43
    [turn |-> "black", their_pawns |-> {8, 9, 10, 11, 13, 14, 20, 31}, is_checkmate |-> FALSE, is_stalemate |-> FALSE,
     legal_moves |-> <<
       M("Rg6", 4, 47, 46, FALSE, 0, 0),
       M("Rf6", 4, 47, 45, FALSE, 0, 0),
       M("Re6", 4, 47, 44, FALSE, 0, 0),
       M("Rd6", 4, 47, 43, FALSE, 0, 0),
       M("Rc6", 4, 47, 42, FALSE, 0, 0),
       M("Rb6", 4, 47, 41, FALSE, 0, 0),
       M("Ra6", 4, 47, 40, FALSE, 0, 0),
       M("R6h7", 4, 47, 55, FALSE, 0, 0),
       M("b6", 1, 49, 41, FALSE, 0, 0),
       M("b5", 1, 49, 33, FALSE, 0, 0),
       M("d6", 1, 51, 43, FALSE, 0, 0),
       M("d5", 1, 51, 35, FALSE, 0, 0),
       M("e6", 1, 52, 44, FALSE, 0, 0),
       M("e5", 1, 52, 36, FALSE, 0, 0),
       M("f6", 1, 53, 45, FALSE, 0, 44),
       M("f5", 1, 53, 37, FALSE, 0, 0),
       M("g6", 1, 54, 46, FALSE, 0, 0),
       M("g5", 1, 54, 38, FALSE, 0, 0),
       M("Nc6", 2, 57, 42, FALSE, 0, 0),
       M("Na6", 2, 57, 40, FALSE, 0, 0),
       M("Qxc7", 5, 59, 50, TRUE, 0, 0),
       M("Nf6", 2, 62, 45, FALSE, 0, 0),
       M("R8h7", 4, 63, 55, FALSE, 0, 0)>>],
    \* position 44
    [turn |-> "white", their_pawns |-> {39, 45, 49, 51, 52, 54}, is_checkmate |-> FALSE, is_stalemate |-> FALSE,
     legal_moves |-> <<
       M("Nc3", 2, 1, 18, FALSE, 0, 0),
       M("Na3", 2, 1, 16, FALSE, 0, 0),
       M("Kd1", 6, 4, 3, FALSE, 0, 0),
       M("Ke2", 6, 4, 12, FALSE, 0, 0),
       M("Be2", 3, 5, 12, FALSE, 0, 0),
       M("Bd3", 3, 5, 19, FALSE, 0, 0),
       M("Bc4", 3, 5, 26, FALSE, 0, 0),
       M("Bb5", 3, 5, 33, FALSE, 0, 0),
       M("Ba6", 3, 5, 40, FALSE, 0, 0),
       M("Nh3", 2, 6, 23, FALSE, 0, 0),
       M("Nf3", 2, 6, 21, FALSE, 0, 0),
       M("Ne2", 2, 6, 12, FALSE, 0, 0),
       M("Rh2", 4, 7, 15, FALSE, 0, 0),
       M("Rh3", 4, 7, 23, FALSE, 0, 0),
       M("a3", 1, 8, 16, FALSE, 0, 0),
       M("a4", 1, 8, 24, FALSE, 0, 0),
       M("b3", 1, 9, 17, FALSE, 0, 0),
       M("b4", 1, 9, 25, FALSE, 0, 0),
       M("c3", 1, 10, 18, FALSE, 0, 0),
       M("c4", 1, 10, 26, FALSE, 0, 0),
       M("d3", 1, 11, 19, FALSE, 0, 0),
       M("d4", 1, 11, 27, FALSE, 0, 0),
       M("f3", 1, 13, 21, FALSE, 0, 0),
       M("f4", 1, 13, 29, FALSE, 0, 0),
       M("g3", 1, 14, 22, FALSE, 0, 0),
       M("g4", 1, 14, 30, FALSE, 0, 0),
       M("e4", 1, 20, 28, FALSE, 0, 0),
       M("Qxd7+", 5, 50, 51, TRUE, 0, 45),
       M("Qxb7", 5, 50, 49, TRUE, 0, 0),
       M("Qxc8", 5, 50, 58, TRUE, 0, 0),
       M("Qc6", 5, 50, 42, FALSE, 0, 0),
       M("Qc5", 5, 50, 34, FALSE, 0, 0),
       M("Qc4", 5, 50, 26, FALSE, 0, 0),
       M("Qc3", 5, 50, 18, FALSE, 0, 0),
       M("Qxd8+", 5, 50, 59, TRUE, 0, 0),
       M("Qd6", 5, 50, 43, FALSE, 0, 0),
       M("Qe5", 5, 50, 36, FALSE, 0, 0),
       M("Qf4", 5, 50, 29, FALSE, 0, 0),
       M("Qg3", 5, 50, 22, FALSE, 0, 0),
       M("Qh2", 5, 50, 15, FALSE, 0, 0),
       M("Qxb8", 5, 50, 57, TRUE, 0, 0),
       M("Qb6", 5, 50, 41, FALSE, 0, 0),
       M("Qa5", 5, 50, 32, FALSE, 0, 0)>>],
    \* position 45
    [turn |-> "black", their_pawns |-> {8, 9, 10, 11, 13, 14, 20, 31}, is_checkmate |-> FALSE, is_stalemate |-> FALSE,
     legal_moves |-> <<
       M("Nxd7", 2, 57, 51, TRUE, 0, 0),
       M("Bxd7", 3, 58, 51, TRUE, 0, 0),
       M("Qxd7", 5, 59, 51, TRUE, 0, 0),
       M("Kxd7", 6, 60, 51, TRUE, 0, 0),
       M("Kf7", 6, 60, 53, FALSE, 0, 46)>>],
    \* position 46
    [turn |-> "white", their_pawns |-> {39, 45, 49, 52, 54}, is_checkmate |-> FALSE, is_stalemate |-> FALSE,
     legal_moves |-> <<
       M("Nc3", 2, 1, 18, FALSE, 0, 0),
       M("Na3", 2, 1, 16, FALSE, 0, 0),
       M("Kd1", 6, 4, 3, FALSE, 0, 0),
       M("Ke2", 6, 4, 12, FALSE, 0, 0),
       M("Be2", 3, 5, 12, FALSE, 0, 0),
       M("Bd3", 3, 5, 19, FALSE, 0, 0),
       M("Bc4+", 3, 5, 26, FALSE, 0, 0),
       M("Bb5", 3, 5, 33, FALSE, 0, 0),
       M("Ba6", 3, 5, 40, FALSE, 0, 0),
       M("Nh3", 2, 6, 23, FALSE, 0, 0),
       M("Nf3", 2, 6, 21, FALSE, 0, 0),
       M("Ne2", 2, 6, 12, FALSE, 0, 0),
       M("Rh2", 4, 7, 15, FALSE, 0, 0),
       M("Rh3", 4, 7, 23, FALSE, 0, 0),
       M("a3", 1, 8, 16, FALSE, 0, 0),
       M("a4", 1, 8, 24, FALSE, 0, 0),
       M("b3", 1, 9, 17, FALSE, 0, 0),
       M("b4", 1, 9, 25, FALSE, 0, 0),
       M("c3", 1, 10, 18, FALSE, 0, 0),
       M("c4", 1, 10, 26, FALSE, 0, 0),
       M("d3", 1, 11, 19, FALSE, 0, 0),
       M("d4", 1, 11, 27, FALSE, 0, 0),
       M("f3", 1, 13, 21, FALSE, 0, 0),
       M("f4", 1, 13, 29, FALSE, 0, 0),
       M("g3", 1, 14, 22, FALSE, 0, 0),
       M("g4", 1, 14, 30, FALSE, 0, 0),
       M("e4", 1, 20, 28, FALSE, 0, 0),
       M("Qxe7+", 5, 51, 52, TRUE, 0, 0),
       M("Qc7", 5, 51, 50, FALSE, 0, 0),
       M("Qxb7", 5, 51, 49, TRUE, 0, 47),
       M("Qxd8", 5, 51, 59, TRUE, 0, 0),
       M("Qd6", 5, 51, 43, FALSE, 0, 0),
       M("Qd5+", 5, 51, 35, FALSE, 0, 0),
       M("Qd4", 5, 51, 27, FALSE, 0, 0),
       M("Qd3", 5, 51, 19, FALSE, 0, 0),
       M("Qe8+", 5, 51, 60, FALSE, 0, 0),
       M("Qe6+", 5, 51, 44, FALSE, 0, 0),
       M("Qf5", 5, 51, 37, FALSE, 0, 0),
       M("Qg4", 5, 51, 30, FALSE, 0, 0),
       M("Qh3", 5, 51, 23, FALSE, 0, 0),
       M("Qxc8", 5, 51, 58, TRUE, 0, 0),
       M("Qc6", 5, 51, 42, FALSE, 0, 0),
       M("Qb5", 5, 51, 33, FALSE, 0, 0),
       M("Qa4", 5, 51, 24, FALSE, 0, 0)>>],
    \* position 47
    [turn |-> "black", their_pawns |-> {8, 9, 10, 11, 13, 14, 20, 31}, is_checkmate |-> FALSE, is_stalemate |-> FALSE,
     legal_moves |-> <<
       M("f5", 1, 45, 37, FALSE, 0, 0),
       M("Rg6", 4, 47, 46, FALSE, 0, 0),
       M("R6h7", 4, 47, 55, FALSE, 0, 0),
       M("Ke6", 6, 53, 44, FALSE, 0, 0),
       M("Ke8", 6, 53, 60, FALSE, 0, 0),
       M("Kg6", 6, 53, 46, FALSE, 0, 0),
       M("g6", 1, 54, 46, FALSE, 0, 0),
       M("g5", 1, 54, 38, FALSE, 0, 0),
       M("Nc6", 2, 57, 42, FALSE, 0, 0),
       M("Nd7", 2, 57, 51, FALSE, 0, 0),
       M("Na6", 2, 57, 40, FALSE, 0, 0),
       M("Bd7", 3, 58, 51, FALSE, 0, 0),
       M("Be6", 3, 58, 44, FALSE, 0, 0),
       M("Bf5", 3, 58, 37, FALSE, 0, 0),
       M("Bg4", 3, 58, 30, FALSE, 0, 0),
       M("Bh3", 3, 58, 23, FALSE, 0, 0),
       M("Bxb7", 3, 58, 49, TRUE, 0, 0),
       M("Qe8", 5, 59, 60, FALSE, 0, 0),
       M("Qd7", 5, 59, 51, FALSE, 0, 0),
       M("Qd6", 5, 59, 43, FALSE, 0, 0),
       M("Qd5", 5, 59, 35, FALSE, 0, 0),
       M("Qd4", 5, 59, 27, FALSE, 0, 0),
       M("Qd3", 5, 59, 19, FALSE, 0, 48),
       M("Qxd2+", 5, 59, 11, TRUE, 0, 0),
       M("Qc7", 5, 59, 50, FALSE, 0, 0),
       M("Qb6", 5, 59, 41, FALSE, 0, 0),
       M("Qa5", 5, 59, 32, FALSE, 0, 0),
       M("R8h7", 4, 63, 55, FALSE, 0, 0)>>],
    \* position 48
    [turn |-> "white", their_pawns |-> {39, 45, 52, 54}, is_checkmate |-> FALSE, is_stalemate |-> FALSE,
     legal_moves |-> <<
       M("Nc3", 2, 1, 18, FALSE, 0, 0),
       M("Na3", 2, 1, 16, FALSE, 0, 0),
       M("Kd1", 6, 4, 3, FALSE, 0, 0),
       M("Be2", 3, 5, 12, FALSE, 0, 0),
       M("Bxd3", 3, 5, 19, TRUE, 0, 0),
       M("Nh3", 2, 6, 23, FALSE, 0, 0),
       M("Nf3", 2, 6, 21, FALSE, 0, 0),
       M("Ne2", 2, 6, 12, FALSE, 0, 0),
       M("Rh2", 4, 7, 15, FALSE, 0, 0),
       M("Rh3", 4, 7, 23, FALSE, 0, 0),
       M("a3", 1, 8, 16, FALSE, 0, 0),
       M("a4", 1, 8, 24, FALSE, 0, 0),
       M("b3", 1, 9, 17, FALSE, 0, 0),
       M("b4", 1, 9, 25, FALSE, 0, 0),
       M("c3", 1, 10, 18, FALSE, 0, 0),
       M("c4", 1, 10, 26, FALSE, 0, 0),
       M("cxd3", 1, 10, 19, TRUE, 0, 0),
       M("f3", 1, 13, 21, FALSE, 0, 0),
       M("f4", 1, 13, 29, FALSE, 0, 0),
       M("g3", 1, 14, 22, FALSE, 0, 0),
       M("g4", 1, 14, 30, FALSE, 0, 0),
       M("e4", 1, 20, 28, FALSE, 0, 0),
       M("Qc7", 5, 49, 50, FALSE, 0, 0),
       M("Qd7", 5, 49, 51, FALSE, 0, 0),
       M("Qxe7+", 5, 49, 52, TRUE, 0, 0),
       M("Qa7", 5, 49, 48, FALSE, 0, 0),
       M("Qxb8", 5, 49, 57, TRUE, 0, 49),
       M("Qb6", 5, 49, 41, FALSE, 0, 0),
       M("Qb5", 5, 49, 33, FALSE, 0, 0),
       M("Qb4", 5, 49, 25, FALSE, 0, 0),
       M("Qb3+", 5, 49, 17, FALSE, 0, 0),
       M("Qxc8", 5, 49, 58, TRUE, 0, 0),
       M("Qc6", 5, 49, 42, FALSE, 0, 0),
       M("Qd5+", 5, 49, 35, FALSE, 0, 0),
       M("Qe4", 5, 49, 28, FALSE, 0, 0),
       M("Qf3", 5, 49, 21, FALSE, 0, 0),
       M("Qa8", 5, 49, 56, FALSE, 0, 0),
       M("Qa6", 5, 49, 40, FALSE, 0, 0)>>],
    \* position 49
    [turn |-> "black", their_pawns |-> {8, 9, 10, 11, 13, 14, 20, 31}, is_checkmate |-> FALSE, is_stalemate |-> FALSE,
     legal_moves |-> <<
       M("Qxe3+", 5, 19, 20, TRUE, 0, 0),
       M("Qc3", 5, 19, 18, FALSE, 0, 0),
       M("Qb3", 5, 19, 17, FALSE, 0, 0),
       M("Qa3", 5, 19, 16, FALSE, 0, 0),
       M("Qd4", 5, 19, 27, FALSE, 0, 0),
       M("Qd5", 5, 19, 35, FALSE, 0, 0),
       M("Qd6", 5, 19, 43, FALSE, 0, 0),
       M("Qd7", 5, 19, 51, FALSE, 0, 0),
       M("Qd8", 5, 19, 59, FALSE, 0, 0),
       M("Qxd2+", 5, 19, 11, TRUE, 0, 0),
       M("Qe4", 5, 19, 28, FALSE, 0, 0),
       M("Qf5", 5, 19, 37, FALSE, 0, 0),
       M("Qg6", 5, 19, 46, FALSE, 0, 0),
       M("Qh7", 5, 19, 55, FALSE, 0, 50),
       M("Qe2+", 5, 19, 12, FALSE, 0, 0),
       M("Qxf1+", 5, 19, 5, TRUE, 0, 0),
       M("Qc4", 5, 19, 26, FALSE, 0, 0),
       M("Qb5", 5, 19, 33, FALSE, 0, 0),
       M("Qa6", 5, 19, 40, FALSE, 0, 0),
       M("Qxc2", 5, 19, 10, TRUE, 0, 0),
       M("f5", 1, 45, 37, FALSE, 0, 0),
       M("Rg6", 4, 47, 46, FALSE, 0, 0),
       M("R6h7", 4, 47, 55, FALSE, 0, 0),
       M("e6", 1, 52, 44, FALSE, 0, 0),
       M("e5", 1, 52, 36, FALSE, 0, 0),
       M("Ke6", 6, 53, 44, FALSE, 0, 0),
       M("Ke8", 6, 53, 60, FALSE, 0, 0),
       M("Kg6", 6, 53, 46, FALSE, 0, 0),
       M("g6", 1, 54, 46, FALSE, 0, 0),
       M("g5", 1, 54, 38, FALSE, 0, 0),
       M("Bd7", 3, 58, 51, FALSE, 0, 0),
       M("Be6", 3, 58, 44, FALSE, 0, 0),
       M("Bf5", 3, 58, 37, FALSE, 0, 0),
       M("Bg4", 3, 58, 30, FALSE, 0, 0),
       M("Bh3", 3, 58, 23, FALSE, 0, 0),
       M("Bb7", 3, 58, 49, FALSE, 0, 0),
       M("Ba6", 3, 58, 40, FALSE, 0, 0),
       M("R8h7", 4, 63, 55, FALSE, 0, 0)>>],
    \* position 50
    [turn |-> "white", their_pawns |-> {39, 45, 52, 54}, is_checkmate |-> FALSE, is_stalemate |-> FALSE,
     legal_moves |-> <<
       M("Nc3", 2, 1, 18, FALSE, 0, 0),
       M("Na3", 2, 1, 16, FALSE, 0, 0),
       M("Kd1", 6, 4, 3, FALSE, 0, 0),
       M("Ke2", 6, 4, 12, FALSE, 0, 0),
       M("Be2", 3, 5, 12, FALSE, 0, 0),
       M("Bd3", 3, 5, 19, FALSE, 0, 0),
       M("Bc4+", 3, 5, 26, FALSE, 0, 0),
       M("Bb5", 3, 5, 33, FALSE, 0, 0),
       M("Ba6", 3, 5, 40, FALSE, 0, 0),
       M("Nh3", 2, 6, 23, FALSE, 0, 0),
       M("Nf3", 2, 6, 21, FALSE, 0, 0),
       M("Ne2", 2, 6, 12, FALSE, 0, 0),
       M("Rh2", 4, 7, 15, FALSE, 0, 0),
       M("Rh3", 4, 7, 23, FALSE, 0, 0),
       M("a3", 1, 8, 16, FALSE, 0, 0),
       M("a4", 1, 8, 24, FALSE, 0, 0),
       M("b3", 1, 9, 17, FALSE, 0, 0),
       M("b4", 1, 9, 25, FALSE, 0, 0),
       M("c3", 1, 10, 18, FALSE, 0, 0),
       M("c4", 1, 10, 26, FALSE, 0, 0),
       M("d3", 1, 11, 19, FALSE, 0, 0),
       M("d4", 1, 11, 27, FALSE, 0, 0),
       M("f3", 1, 13, 21, FALSE, 0, 0),
       M("f4", 1, 13, 29, FALSE, 0, 0),
       M("g3", 1, 14, 22, FALSE, 0, 0),
       M("g4", 1, 14, 30, FALSE, 0, 0),
       M("e4", 1, 20, 28, FALSE, 0, 0),
       M("Qxc8", 5, 57, 58, TRUE, 0, 51),
       M("Qa8", 5, 57, 56, FALSE, 0, 0),
       M("Qb7", 5, 57, 49, FALSE, 0, 0),
       M("Qb6", 5, 57, 41, FALSE, 0, 0),
       M("Qb5", 5, 57, 33, FALSE, 0, 0),
       M("Qb4", 5, 57, 25, FALSE, 0, 0),
       M("Qb3+", 5, 57, 17, FALSE, 0, 0),
       M("Qc7", 5, 57, 50, FALSE, 0, 0),
       M("Qd6", 5, 57, 43, FALSE, 0, 0),
       M("Qe5", 5, 57, 36, FALSE, 0, 0),
       M("Qf4", 5, 57, 29, FALSE, 0, 0),
       M("Qg3", 5, 57, 22, FALSE, 0, 0),
       M("Qh2", 5, 57, 15, FALSE, 0, 0),
       M("Qa7", 5, 57, 48, FALSE, 0, 0)>>],
    \* position 51
    [turn |-> "black", their_pawns |-> {8, 9, 10, 11, 13, 14, 20, 31}, is_checkmate |-> FALSE, is_stalemate |-> FALSE,
     legal_moves |-> <<
       M("f5", 1, 45, 37, FALSE, 0, 0),
       M("Rg6", 4, 47, 46, FALSE, 0, 0),
       M("e6", 1, 52, 44, FALSE, 0, 0),
       M("e5", 1, 52, 36, FALSE, 0, 0),
       M("Kg6", 6, 53, 46, FALSE, 0, 52),
       M("g6", 1, 54, 46, FALSE, 0, 0),
       M("g5", 1, 54, 38, FALSE, 0, 0),
       M("Qg6", 5, 55, 46, FALSE, 0, 0),
       M("Qf5", 5, 55, 37, FALSE, 0, 0),
       M("Qe4", 5, 55, 28, FALSE, 0, 0),
       M("Qd3", 5, 55, 19, FALSE, 0, 0),
       M("Qxc2", 5, 55, 10, TRUE, 0, 0)>>],
    \* position 52
    [turn |-> "white", their_pawns |-> {39, 45, 52, 54}, is_checkmate |-> FALSE, is_stalemate |-> FALSE,
     legal_moves |-> <<
       M("Nc3", 2, 1, 18, FALSE, 0, 0),
       M("Na3", 2, 1, 16, FALSE, 0, 0),
       M("Kd1", 6, 4, 3, FALSE, 0, 0),
       M("Ke2", 6, 4, 12, FALSE, 0, 0),
       M("Be2", 3, 5, 12, FALSE, 0, 0),
       M("Bd3+", 3, 5, 19, FALSE, 0, 0),
       M("Bc4", 3, 5, 26, FALSE, 0, 0),
       M("Bb5", 3, 5, 33, FALSE, 0, 0),
       M("Ba6", 3, 5, 40, FALSE, 0, 0),
       M("Nh3", 2, 6, 23, FALSE, 0, 0),
       M("Nf3", 2, 6, 21, FALSE, 0, 0),
       M("Ne2", 2, 6, 12, FALSE, 0, 0),
       M("Rh2", 4, 7, 15, FALSE, 0, 0),
       M("Rh3", 4, 7, 23, FALSE, 0, 0),
       M("a3", 1, 8, 16, FALSE, 0, 0),
       M("a4", 1, 8, 24, FALSE, 0, 0),
       M("b3", 1, 9, 17, FALSE, 0, 0),
       M("b4", 1, 9, 25, FALSE, 0, 0),
       M("c3", 1, 10, 18, FALSE, 0, 0),
       M("c4", 1, 10, 26, FALSE, 0, 0),
       M("d3", 1, 11, 19, FALSE, 0, 0),
       M("d4", 1, 11, 27, FALSE, 0, 0),
       M("f3", 1, 13, 21, FALSE, 0, 0),
       M("f4", 1, 13, 29, FALSE, 0, 0),
       M("g3", 1, 14, 22, FALSE, 0, 0),
       M("g4", 1, 14, 30, FALSE, 0, 0),
       M("e4", 1, 20, 28, FALSE, 0, 0),
       M("Qd8", 5, 58, 59, FALSE, 0, 0),
       M("Qe8+", 5, 58, 60, FALSE, 0, 0),
       M("Qxf8", 5, 58, 61, TRUE, 0, 0),
       M("Qb8", 5, 58, 57, FALSE, 0, 0),
       M("Qa8", 5, 58, 56, FALSE, 0, 0),
       M("Qc7", 5, 58, 50, FALSE, 0, 0),
       M("Qc6", 5, 58, 42, FALSE, 0, 0),
       M("Qc5", 5, 58, 34, FALSE, 0, 0),
       M("Qc4", 5, 58, 26, FALSE, 0, 0),
       M("Qc3", 5, 58, 18, FALSE, 0, 0),
       M("Qd7", 5, 58, 51, FALSE, 0, 0),
       M("Qe6", 5, 58, 44, FALSE, 0, 53),
       M("Qf5+", 5, 58, 37, FALSE, 0, 0),
       M("Qg4+", 5, 58, 30, FALSE, 0, 0),
       M("Qh3", 5, 58, 23, FALSE, 0, 0),
       M("Qb7", 5, 58, 49, FALSE, 0, 0),
       M("Qa6", 5, 58, 40, FALSE, 0, 0)>>],
    \* position 53
    [turn |-> "black", their_pawns |-> {8, 9, 10, 11, 13, 14, 20, 31}, is_checkmate |-> FALSE, is_stalemate |-> TRUE,
     legal_moves |-> <<>>],
    \* position 54
    [turn |-> "black", their_pawns |-> {8, 9, 10, 12, 13, 14, 15, 27}, is_checkmate |-> FALSE, is_stalemate |-> FALSE,
     legal_moves |-> <<
       M("a6", 1, 48, 40, FALSE, 0, 0),
       M("a5", 1, 48, 32, FALSE, 0, 0),
       M("b6", 1, 49, 41, FALSE, 0, 0),
       M("b5", 1, 49, 33, FALSE, 0, 0),
       M("c6", 1, 50, 42, FALSE, 0, 0),
       M("c5", 1, 50, 34, FALSE, 0, 0),
       M("d6", 1, 51, 43, FALSE, 0, 0),
       M("d5", 1, 51, 35, FALSE, 0, 55),
       M("e6", 1, 52, 44, FALSE, 0, 0),
       M("e5", 1, 52, 36, FALSE, 0, 0),
       M("f6", 1, 53, 45, FALSE, 0, 0),
       M("f5", 1, 53, 37, FALSE, 0, 0),
       M("g6", 1, 54, 46, FALSE, 0, 0),
       M("g5", 1, 54, 38, FALSE, 0, 0),
       M("h6", 1, 55, 47, FALSE, 0, 0),
       M("h5", 1, 55, 39, FALSE, 0, 0),
       M("Nc6", 2, 57, 42, FALSE, 0, 0),
       M("Na6", 2, 57, 40, FALSE, 0, 0),
       M("Nh6", 2, 62, 47, FALSE, 0, 0),
       M("Nf6", 2, 62, 45, FALSE, 0, 56)>>],
    \* position 55
    [turn |-> "white", their_pawns |-> {35, 48, 49, 50, 52, 53, 54, 55}, is_checkmate |-> FALSE, is_stalemate |-> FALSE,
     legal_moves |-> <<
       M("Nc3", 2, 1, 18, FALSE, 0, 0),
       M("Nd2", 2, 1, 11, FALSE, 0, 0),
       M("Na3", 2, 1, 16, FALSE, 0, 0),
       M("Bd2", 3, 2, 11, FALSE, 0, 0),
       M("Be3", 3, 2, 20, FALSE, 0, 0),
       M("Bf4", 3, 2, 29, FALSE, 0, 0),
       M("Bg5", 3, 2, 38, FALSE, 0, 0),
       M("Bh6", 3, 2, 47, FALSE, 0, 0),
       M("Qd2", 5, 3, 11, FALSE, 0, 0),
       M("Qd3", 5, 3, 19, FALSE, 0, 0),
       M("Kd2", 6, 4, 11, FALSE, 0, 0),
       M("Nh3", 2, 6, 23, FALSE, 0, 0),
       M("Nf3", 2, 6, 21, FALSE, 0, 0),
       M("a3", 1, 8, 16, FALSE, 0, 0),
       M("a4", 1, 8, 24, FALSE, 0, 0),
       M("b3", 1, 9, 17, FALSE, 0, 0),
       M("b4", 1, 9, 25, FALSE, 0, 0),
       M("c3", 1, 10, 18, FALSE, 0, 0),
       M("c4", 1, 10, 26, FALSE, 0, 0),
       M("e3", 1, 12, 20, FALSE, 0, 0),
       M("e4", 1, 12, 28, FALSE, 0, 0),
       M("f3", 1, 13, 21, FALSE, 0, 0),
       M("f4", 1, 13, 29, FALSE, 0, 0),
       M("g3", 1, 14, 22, FALSE, 0, 0),
       M("g4", 1, 14, 30, FALSE, 0, 0),
       M("h3", 1, 15, 23, FALSE, 0, 0),
       M("h4", 1, 15, 31, FALSE, 0, 0)>>],
    \* position 56
    [turn |-> "white", their_pawns |-> {48, 49, 50, 51, 52, 53, 54, 55}, is_checkmate |-> FALSE, is_stalemate |-> FALSE,
     legal_moves |-> <<
       M("Nc3", 2, 1, 18, FALSE, 0, 0),
       M("Nd2", 2, 1, 11, FALSE, 0, 0),
       M("Na3", 2, 1, 16, FALSE, 0, 0),
       M("Bd2", 3, 2, 11, FALSE, 0, 0),
       M("Be3", 3, 2, 20, FALSE, 0, 0),
       M("Bf4", 3, 2, 29, FALSE, 0, 0),
       M("Bg5", 3, 2, 38, FALSE, 0, 0),
       M("Bh6", 3, 2, 47, FALSE, 0, 0),
       M("Qd2", 5, 3, 11, FALSE, 0, 0),
       M("Qd3", 5, 3, 19, FALSE, 0, 0),
       M("Kd2", 6, 4, 11, FALSE, 0, 0),
       M("Nh3", 2, 6, 23, FALSE, 0, 0),
       M("Nf3", 2, 6, 21, FALSE, 0, 0),
       M("a3", 1, 8, 16, FALSE, 0, 0),
       M("a4", 1, 8, 24, FALSE, 0, 0),
       M("b3", 1, 9, 17, FALSE, 0, 0),
       M("b4", 1, 9, 25, FALSE, 0, 0),
       M("c3", 1, 10, 18, FALSE, 0, 0),
       M("c4", 1, 10, 26, FALSE, 0, 0),
       M("e3", 1, 12, 20, FALSE, 0, 0),
       M("e4", 1, 12, 28, FALSE, 0, 0),
       M("f3", 1, 13, 21, FALSE, 0, 0),
       M("f4", 1, 13, 29, FALSE, 0, 0),
       M("g3", 1, 14, 22, FALSE, 0, 0),
       M("g4", 1, 14, 30, FALSE, 0, 0),
       M("h3", 1, 15, 23, FALSE, 0, 0),
       M("h4", 1, 15, 31, FALSE, 0, 0),
       M("d5", 1, 27, 35, FALSE, 0, 0)>>],
    \* position 57
    [turn |-> "white", their_pawns |-> {34, 48, 49, 51, 52, 53, 54, 55}, is_checkmate |-> FALSE, is_stalemate |-> FALSE,
     legal_moves |-> <<
       M("Nc3", 2, 1, 18, FALSE, 0, 0),
       M("Na3", 2, 1, 16, FALSE, 0, 0),
       M("Qe2", 5, 3, 12, FALSE, 0, 0),
       M("Qf3", 5, 3, 21, FALSE, 0, 0),
       M("Qg4", 5, 3, 30, FALSE, 0, 0),
       M("Qh5", 5, 3, 39, FALSE, 0, 0),
       M("Ke2", 6, 4, 12, FALSE, 0, 0),
       M("Be2", 3, 5, 12, FALSE, 0, 0),
       M("Bd3", 3, 5, 19, FALSE, 0, 0),
       M("Bc4", 3, 5, 26, FALSE, 0, 0),
       M("Bb5", 3, 5, 33, FALSE, 0, 0),
       M("Ba6", 3, 5, 40, FALSE, 0, 0),
       M("Nh3", 2, 6, 23, FALSE, 0, 0),
       M("Nf3", 2, 6, 21, FALSE, 0, 0),
       M("Ne2", 2, 6, 12, FALSE, 0, 0),
       M("a3", 1, 8, 16, FALSE, 0, 0),
       M("a4", 1, 8, 24, FALSE, 0, 0),
       M("b3", 1, 9, 17, FALSE, 0, 0),
       M("b4", 1, 9, 25, FALSE, 0, 0),
       M("c3", 1, 10, 18, FALSE, 0, 0),
       M("c4", 1, 10, 26, FALSE, 0, 58),
       M("d3", 1, 11, 19, FALSE, 0, 0),
       M("d4", 1, 11, 27, FALSE, 0, 0),
       M("f3", 1, 13, 21, FALSE, 0, 0),
       M("f4", 1, 13, 29, FALSE, 0, 0),
       M("g3", 1, 14, 22, FALSE, 0, 0),
       M("g4", 1, 14, 30, FALSE, 0, 0),
       M("h3", 1, 15, 23, FALSE, 0, 0),
       M("h4", 1, 15, 31, FALSE, 0, 0),
       M("e5", 1, 28, 36, FALSE, 0, 0)>>],
    \* position 58
    [turn |-> "black", their_pawns |-> {8, 9, 11, 13, 14, 15, 26, 28}, is_checkmate |-> FALSE, is_stalemate |-> FALSE,
     legal_moves |-> <<
       M("a6", 1, 48, 40, FALSE, 0, 0),
       M("a5", 1, 48, 32, FALSE, 0, 0),
       M("b6", 1, 49, 41, FALSE, 0, 0),
       M("b5", 1, 49, 33, FALSE, 0, 0),
       M("d6", 1, 51, 43, FALSE, 0, 0),
       M("d5", 1, 51, 35, FALSE, 0, 0),
       M("e6", 1, 52, 44, FALSE, 0, 0),
       M("e5", 1, 52, 36, FALSE, 0, 0),
       M("f6", 1, 53, 45, FALSE, 0, 0),
       M("f5", 1, 53, 37, FALSE, 0, 0),
       M("g6", 1, 54, 46, FALSE, 0, 0),
       M("g5", 1, 54, 38, FALSE, 0, 0),
       M("h6", 1, 55, 47, FALSE, 0, 0),
       M("h5", 1, 55, 39, FALSE, 0, 0),
       M("Nc6", 2, 57, 42, FALSE, 0, 0),
       M("Na6", 2, 57, 40, FALSE, 0, 0),
       M("Qc7", 5, 59, 50, FALSE, 0, 0),
       M("Qb6", 5, 59, 41, FALSE, 0, 0),
       M("Qa5", 5, 59, 32, FALSE, 0, 0),
       M("Nh6", 2, 62, 47, FALSE, 0, 0),
       M("Nf6", 2, 62, 45, FALSE, 0, 0)>>],
    \* position 59
    [turn |-> "black", their_pawns |-> {9, 10, 11, 12, 13, 14, 15, 16}, is_checkmate |-> FALSE, is_stalemate |-> FALSE,
     legal_moves |-> <<
       M("a6", 1, 48, 40, FALSE, 0, 60),
       M("a5", 1, 48, 32, FALSE, 0, 0),
       M("b6", 1, 49, 41, FALSE, 0, 0),
       M("b5", 1, 49, 33, FALSE, 0, 0),
       M("c6", 1, 50, 42, FALSE, 0, 0),
       M("c5", 1, 50, 34, FALSE, 0, 0),
       M("d6", 1, 51, 43, FALSE, 0, 0),
       M("d5", 1, 51, 35, FALSE, 0, 0),
       M("e6", 1, 52, 44, FALSE, 0, 0),
       M("e5", 1, 52, 36, FALSE, 0, 0),
       M("f6", 1, 53, 45, FALSE, 0, 0),
       M("f5", 1, 53, 37, FALSE, 0, 0),
       M("g6", 1, 54, 46, FALSE, 0, 0),
       M("g5", 1, 54, 38, FALSE, 0, 0),
       M("h6", 1, 55, 47, FALSE, 0, 0),
       M("h5", 1, 55, 39, FALSE, 0, 0),
       M("Nc6", 2, 57, 42, FALSE, 0, 0),
       M("Na6", 2, 57, 40, FALSE, 0, 0),
       M("Nh6", 2, 62, 47, FALSE, 0, 0),
       M("Nf6", 2, 62, 45, FALSE, 0, 0)>>],
    \* position 60
    [turn |-> "white", their_pawns |-> {40, 49, 50, 51, 52, 53, 54, 55}, is_checkmate |-> FALSE, is_stalemate |-> FALSE,
     legal_moves |-> <<
       M("Ra2", 4, 0, 8, FALSE, 0, 0),
       M("Nc3", 2, 1, 18, FALSE, 0, 0),
       M("Nh3", 2, 6, 23, FALSE, 0, 0),
       M("Nf3", 2, 6, 21, FALSE, 0, 0),
       M("b3", 1, 9, 17, FALSE, 0, 0),
       M("b4", 1, 9, 25, FALSE, 0, 0),
       M("c3", 1, 10, 18, FALSE, 0, 0),
       M("c4", 1, 10, 26, FALSE, 0, 0),
       M("d3", 1, 11, 19, FALSE, 0, 0),
       M("d4", 1, 11, 27, FALSE, 0, 0),
       M("e3", 1, 12, 20, FALSE, 0, 0),
       M("e4", 1, 12, 28, FALSE, 0, 0),
       M("f3", 1, 13, 21, FALSE, 0, 0),
       M("f4", 1, 13, 29, FALSE, 0, 0),
       M("g3", 1, 14, 22, FALSE, 0, 0),
       M("g4", 1, 14, 30, FALSE, 0, 0),
       M("h3", 1, 15, 23, FALSE, 0, 0),
       M("h4", 1, 15, 31, FALSE, 0, 0),
       M("a4", 1, 16, 24, FALSE, 0, 0)>>],
    \* position 61
    [turn |-> "black", their_pawns |-> {8, 9, 10, 11, 12, 13, 14, 15}, is_checkmate |-> FALSE, is_stalemate |-> FALSE,
     legal_moves |-> <<
       M("a6", 1, 48, 40, FALSE, 0, 0),
       M("a5", 1, 48, 32, FALSE, 0, 0),
       M("b6", 1, 49, 41, FALSE, 0, 0),
       M("b5", 1, 49, 33, FALSE, 0, 0),
       M("c6", 1, 50, 42, FALSE, 0, 0),
       M("c5", 1, 50, 34, FALSE, 0, 0),
       M("d6", 1, 51, 43, FALSE, 0, 0),
       M("d5", 1, 51, 35, FALSE, 0, 0),
       M("e6", 1, 52, 44, FALSE, 0, 0),
       M("e5", 1, 52, 36, FALSE, 0, 0),
       M("f6", 1, 53, 45, FALSE, 0, 0),
       M("f5", 1, 53, 37, FALSE, 0, 0),
       M("g6", 1, 54, 46, FALSE, 0, 0),
       M("g5", 1, 54, 38, FALSE, 0, 0),
       M("h6", 1, 55, 47, FALSE, 0, 0),
       M("h5", 1, 55, 39, FALSE, 0, 0),
       M("Nc6", 2, 57, 42, FALSE, 0, 0),
       M("Na6", 2, 57, 40, FALSE, 0, 0),
       M("Nh6", 2, 62, 47, FALSE, 0, 62),
       M("Nf6", 2, 62, 45, FALSE, 0, 0)>>],
    \* position 62
    [turn |-> "white", their_pawns |-> {48, 49, 50, 51, 52, 53, 54, 55}, is_checkmate |-> FALSE, is_stalemate |-> FALSE,
     legal_moves |-> <<
       M("Nc3", 2, 1, 18, FALSE, 0, 0),
       M("Na3", 2, 1, 16, FALSE, 0, 0),
       M("Rg1", 4, 7, 6, FALSE, 0, 0),
       M("a3", 1, 8, 16, FALSE, 0, 0),
       M("a4", 1, 8, 24, FALSE, 0, 0),
       M("b3", 1, 9, 17, FALSE, 0, 0),
       M("b4", 1, 9, 25, FALSE, 0, 0),
       M("c3", 1, 10, 18, FALSE, 0, 0),
       M("c4", 1, 10, 26, FALSE, 0, 0),
       M("d3", 1, 11, 19, FALSE, 0, 0),
       M("d4", 1, 11, 27, FALSE, 0, 0),
       M("e3", 1, 12, 20, FALSE, 0, 0),
       M("e4", 1, 12, 28, FALSE, 0, 0),
       M("f3", 1, 13, 21, FALSE, 0, 0),
       M("f4", 1, 13, 29, FALSE, 0, 0),
       M("g3", 1, 14, 22, FALSE, 0, 0),
       M("g4", 1, 14, 30, FALSE, 0, 0),
       M("Ng5", 2, 23, 38, FALSE, 0, 0),
       M("Nf4", 2, 23, 29, FALSE, 0, 0),
       M("Ng1", 2, 23, 6, FALSE, 0, 0)>>]
  >>
InitialPosition == 1

\* a position outside the table
OffTable == 0

LICHESS_TABLES ==
  <<
    <<
      0, 0, 0, 0, 0, 0, 0, 0,
      50, 50, 50, 50, 50, 50, 50, 50,
      10, 10, 20, 30, 30, 20, 10, 10,
      5, 5, 10, 25, 25, 10, 5, 5,
      0, 0, 0, 20, 21, 0, 0, 0,
      5, -5, -10, 0, 0, -10, -5, 5,
      5, 10, 10, -31, -31, 10, 10, 5,
      0, 0, 0, 0, 0, 0, 0, 0
    >>,
    <<
      -50, -40, -30, -30, -30, -30, -40, -50,
      -40, -20, 0, 0, 0, 0, -20, -40,
      -30, 0, 10, 15, 15, 10, 0, -30,
      -30, 5, 15, 20, 20, 15, 5, -30,
      -30, 0, 15, 20, 20, 15, 0, -30,
      -30, 5, 10, 15, 15, 11, 5, -30,
      -40, -20, 0, 5, 5, 0, -20, -40,
      -50, -40, -30, -30, -30, -30, -40, -50
    >>,
    <<
      -20, -10, -10, -10, -10, -10, -10, -20,
      -10, 0, 0, 0, 0, 0, 0, -10,
      -10, 0, 5, 10, 10, 5, 0, -10,
      -10, 5, 5, 10, 10, 5, 5, -10,
      -10, 0, 10, 10, 10, 10, 0, -10,
      -10, 10, 10, 10, 10, 10, 10, -10,
      -10, 5, 0, 0, 0, 0, 5, -10,
      -20, -10, -10, -10, -10, -10, -10, -20
    >>,
    <<
      0, 0, 0, 0, 0, 0, 0, 0,
      5, 10, 10, 10, 10, 10, 10, 5,
      -5, 0, 0, 0, 0, 0, 0, -5,
      -5, 0, 0, 0, 0, 0, 0, -5,
      -5, 0, 0, 0, 0, 0, 0, -5,
      -5, 0, 0, 0, 0, 0, 0, -5,
      -5, 0, 0, 0, 0, 0, 0, -5,
      0, 0, 0, 5, 5, 0, 0, 0
    >>,
    <<
      -20, -10, -10, -5, -5, -10, -10, -20,
      -10, 0, 0, 0, 0, 0, 0, -10,
      -10, 0, 5, 5, 5, 5, 0, -10,
      -5, 0, 5, 5, 5, 5, 0, -5,
      0, 0, 5, 5, 5, 5, 0, -5,
      -10, 5, 5, 5, 5, 5, 0, -10,
      -10, 0, 5, 0, 0, 0, 0, -10,
      -20, -10, -10, -5, -5, -10, -10, -20
    >>,
    <<
      -30, -40, -40, -50, -50, -40, -40, -30,
      -30, -40, -40, -50, -50, -40, -40, -30,
      -30, -40, -40, -50, -50, -40, -40, -30,
      -30, -40, -40, -50, -50, -40, -40, -30,
      -20, -30, -30, -40, -40, -30, -30, -20,
      -10, -20, -20, -20, -20, -20, -20, -10,
      20, 20, 0, 0, 0, 0, 20, 20,
      0, 30, 10, 0, 0, 10, 30, 0
    >>
  >>
\* shakmaty::attacks::pawn_attacks(color, sq)
pawn_attacks(color, sq) ==
  LET rank == IF color = "white" THEN (sq \div 8) + 1 ELSE (sq \div 8) - 1
  IN IF rank < 0 \/ rank > 7 THEN {}
     ELSE {8 * rank + file : file \in {(sq % 8) - 1, (sq % 8) + 1} \cap (0..7)}

promotion_score(m) == (IF m.promotion = 0 THEN 1 ELSE m.promotion) - 1

capture_score(m) == IF m.capture THEN 1 ELSE 0

\* the score looking for the pawns on the mover's side of the destination
pawn_defense_score_behind(pos, m) ==
  LET defended_squares ==
        pawn_attacks(IF pos.turn = "white" THEN "black" ELSE "white", m.to) \cap pos.their_pawns
  IN IF defended_squares # {} THEN 6 - m.role ELSE 6

pawn_defense_score(pos, m) ==
  LET defended_squares == pawn_attacks(pos.turn, m.to) \cap pos.their_pawns
  IN IF defended_squares # {} THEN 6 - m.role ELSE 6

\* Square::flip_vertical
flip_vertical(square) == 8 * (7 - (square \div 8)) + (square % 8)

pst_score(color, role, square) ==
  LET sq == IF color = "white" THEN flip_vertical(square) ELSE square
  IN LICHESS_TABLES[role][sq + 1]

move_pst_score(turn, m) ==
  512 + pst_score(turn, m.role, m.to) - pst_score(turn, m.role, m.from)

\* move_score with the destination square not shifted
move_score_unshifted(pos, m) ==
  promotion_score(m) * Pow2(26) + capture_score(m) * Pow2(25)
  + pawn_defense_score(pos, m) * Pow2(24) + move_pst_score(pos.turn, m) * Pow2(12)
  + m.to + m.from

move_score(pos, m) ==
  promotion_score(m) * Pow2(26) + capture_score(m) * Pow2(25)
  + pawn_defense_score(pos, m) * Pow2(24) + move_pst_score(pos.turn, m) * Pow2(12)
  + m.to * Pow2(6) + m.from

\* the orders in which the move generator may hand out the legal moves
GeneratorOrders == {"forward", "backward"}

legal_moves(pos, order) ==
  IF order = "forward" THEN pos.legal_moves
  ELSE [i \in 1..Len(pos.legal_moves) |-> pos.legal_moves[Len(pos.legal_moves) + 1 - i]]

\* generate_moves: the legal moves sorted by move_score, highest score first
\* (test_compress_moves fixes this direction: only it gives the 463 bits the
\* test expects); the sort is stable
SortByScore(pos, list) ==
  SortSeq(list, LAMBDA a, b : move_score(pos, a) > move_score(pos, b))

generate_moves_in(pos, order) == SortByScore(pos, legal_moves(pos, order))

generate_moves(pos) == generate_moves_in(pos, "forward")

\* get_move_index: the 0-based place of m in generate_moves(pos), if any
position(moves, m) ==
  IF \A i \in 1..Len(moves) : moves[i] # m THEN [some |-> FALSE, index |-> 0]
  ELSE [some |-> TRUE,
        index |-> (CHOOSE i \in 1..Len(moves) :
                     moves[i] = m /\ \A j \in 1..(i - 1) : moves[j] # m) - 1]

get_move_index(pos, m) == position(generate_moves(pos), m)

\* San::to_move: the legal move that is written san
to_move(pos, san) ==
  LET found == {i \in 1..Len(pos.legal_moves) : pos.legal_moves[i].san = san}
  IN IF found = {} THEN Err
     ELSE [ok |-> TRUE, move |-> pos.legal_moves[CHOOSE i \in found : TRUE]]

\* the SAN texts the modelled games may continue with in a position
BookSans(pos) == {pos.legal_moves[i].san : i \in {j \in 1..Len(pos.legal_moves) : pos.legal_moves[j].next # OffTable}}

\* ------------------------------------------------------------ Huffman codes
LichessWeights ==
  <<
    225883932, 134956126, 89041269, 69386238, 57040790, 44974559, 36547155, 31624920,
    28432772, 26540493, 24484873, 23058034, 23535272, 20482457, 20450172, 18316057,
    17214833, 16964761, 16530028, 15369510, 14178440, 14275714, 13353306, 12829602,
    13102592, 11932647, 10608657, 10142459, 8294594, 7337490, 6337744, 5380717,
    4560556, 3913313, 3038767, 2480514, 1951026, 1521451, 1183252, 938708,
    673339, 513153, 377299, 276996, 199682, 144602, 103313, 73046,
    52339, 36779, 26341, 18719, 13225, 9392, 6945, 4893,
    3698, 2763, 2114, 1631, 1380, 1090, 887, 715,
    590, 549, 477, 388, 351, 319, 262, 236,
    200, 210, 153, 117, 121, 121, 115, 95,
    75, 67, 55, 50, 55, 33, 33, 30,
    32, 28, 29, 27, 21, 15, 9, 10,
    12, 12, 8, 7, 2, 4, 5, 5,
    0, 5, 1, 1, 0, 1, 2, 1,
    1, 0, 0, 1, 0, 0, 0, 0,
    0, 0, 0, 0, 0, 0, 0, 0,
    0, 0, 0, 0, 0, 0, 0, 0,
    0, 0, 0, 0, 0, 0, 0, 0,
    0, 0, 0, 0, 0, 0, 0, 0,
    0, 0, 0, 0, 0, 0, 0, 0,
    0, 0, 0, 0, 0, 0, 0, 0,
    0, 0, 0, 0, 0, 0, 0, 0,
    0, 0, 0, 0, 0, 0, 0, 0,
    0, 0, 0, 0, 0, 0, 0, 0,
    0, 0, 0, 0, 0, 0, 0, 0,
    0, 0, 0, 0, 0, 0, 0, 0,
    0, 0, 0, 0, 0, 0, 0, 0,
    0, 0, 0, 0, 0, 0, 0, 0,
    0, 0, 0, 0, 0, 0, 0, 0,
    0, 0, 0, 0, 0, 0, 0, 0,
    0, 0, 0, 0, 0, 0, 0, 0,
    0, 0, 0, 0, 0, 0, 0, 0
  >>

NumSymbols == 256
get_lichess_hashmap == [k \in 0..(NumSymbols - 1) |-> LichessWeights[k + 1]]

\* ---- huffman_compress::CodeBuilder, as used by convert_hashmap_to_weights ----
\* The builder's heap pops the least weight first and breaks ties by the
\* greatest symbol; the heap is kept as a sequence in pop order.  The first
\* definition is the order without the tie break.
PopsBeforeByWeight(a, b) == a.weight < b.weight

PopsBefore(a, b) == a.weight < b.weight \/ (a.weight = b.weight /\ a.symbol > b.symbol)

RECURSIVE InsertPos(_, _, _, _)
InsertPos(heap, e, lo, hi) ==
  IF lo > hi THEN lo
  ELSE LET mid == (lo + hi) \div 2
       IN IF PopsBefore(heap[mid], e) THEN InsertPos(heap, e, mid + 1, hi)
          ELSE InsertPos(heap, e, lo, mid - 1)

HeapPush(heap, e) ==
  LET p == InsertPos(heap, e, 1, Len(heap))
  IN SubSeq(heap, 1, p - 1) \o <<e>> \o SubSeq(heap, p, Len(heap))

\* one round of CodeBuilder::finish: pop left, pop right, push their parent
MergeStep(b) ==
  IF Len(b.heap) < 2 THEN b
  ELSE LET left == b.heap[1]
           right == b.heap[2]
           id == Len(b.arena) + 1
           parent == [weight |-> left.weight + right.weight,
                      symbol |-> IF left.symbol > right.symbol THEN left.symbol ELSE right.symbol,
                      id |-> id]
       IN [heap |-> HeapPush(SubSeq(b.heap, 3, Len(b.heap)), parent),
           arena |-> Append([b.arena EXCEPT ![left.id].parent = id, ![right.id].parent = id],
                            [parent |-> 0, leaf |-> FALSE, symbol |-> 0,
                             left |-> left.id, right |-> right.id])]

\* n rounds, split in halves (the first half is evaluated before the second starts)
RECURSIVE MergeRounds(_, _)
MergeRounds(b, n) ==
  IF n = 0 THEN b
  ELSE IF n = 1 THEN MergeStep(b)
  ELSE LET half == MergeRounds(b, n \div 2)
       IN IF Len(half.arena) > 0 THEN MergeRounds(half, n - n \div 2) ELSE half

\* CodeBuilder::from_iter(hashmap).finish(): the arena of the tree; its root is
\* the last node.  Leaves are the nodes 1..NumSymbols (symbol k is node k + 1);
\* SubSeq makes the arena a sequence of nodes from the first merge on.
convert_hashmap_to_weights(hashmap) ==
  LET leaves == [k \in 1..NumSymbols |->
                   [parent |-> 0, leaf |-> TRUE, symbol |-> k - 1, left |-> 0, right |-> 0]]
      heap == SortSeq([k \in 1..NumSymbols |-> [weight |-> hashmap[k - 1], symbol |-> k - 1, id |-> k]],
                      PopsBefore)
  IN MergeRounds([heap |-> heap, arena |-> SubSeq(leaves, 1, NumSymbols)], NumSymbols - 1).arena

TreeRoot(arena) == Len(arena)

\* Book: the code word of a symbol is the path from the root to its leaf,
\* bit 1 for a left child and bit 0 for a right child
ClimbStep(arena, c) ==
  IF arena[c.node].parent = 0 THEN c
  ELSE LET p == arena[c.node].parent
       IN [node |-> p,
           word |-> <<(IF arena[p].left = c.node THEN 1 ELSE 0)>> \o c.word]

RECURSIVE Climb(_, _, _)
Climb(arena, c, n) ==
  IF n = 0 THEN c
  ELSE IF n = 1 THEN ClimbStep(arena, c)
  ELSE LET half == Climb(arena, c, n \div 2)
       IN IF arena[half.node].parent # 0 THEN Climb(arena, half, n - n \div 2) ELSE half

BookEncode(arena, symbol) ==
  Climb(arena, [node |-> symbol + 1, word |-> <<>>], NumSymbols - 1).word

\* Tree::decoder(bits, ..).next(): walk from the root, one bit per branch;
\* None when the bits run out before a leaf
DescendStep(arena, bits, d) ==
  IF arena[d.node].leaf \/ d.used >= Len(bits) THEN d
  ELSE [node |-> IF bits[d.used + 1] = 1 THEN arena[d.node].left ELSE arena[d.node].right,
        used |-> d.used + 1]

RECURSIVE Descend(_, _, _, _)
Descend(arena, bits, d, n) ==
  IF n = 0 THEN d
  ELSE IF n = 1 THEN DescendStep(arena, bits, d)
  ELSE LET half == Descend(arena, bits, d, n \div 2)
       IN IF ~arena[half.node].leaf /\ half.used < Len(bits)
          THEN Descend(arena, bits, half, n - n \div 2)
          ELSE half

TreeDecodeNext(arena, bits) ==
  LET d == Descend(arena, bits, [node |-> TreeRoot(arena), used |-> 0], NumSymbols - 1)
  IN IF arena[d.node].leaf
     THEN [some |-> TRUE, symbol |-> arena[d.node].symbol, used |-> d.used]
     ELSE [some |-> FALSE, symbol |-> 0, used |-> 0]

\* ---- the same construction, the HashMap handing out its entries in any order ----
\* iterating a std HashMap visits the keys in an order that differs from one
\* map to the next
IterationOrders == {"ascending", "descending", "scattered"}

\* the k-th key (k from 1) the iteration hands out
IterKey(order, k) ==
  IF order = "ascending" THEN k - 1
  ELSE IF order = "descending" THEN NumSymbols - k
  ELSE (77 * k + 13) % NumSymbols

\* CodeBuilder::push for the entries lo..hi of the iteration: entry k becomes
\* node k of the arena
RECURSIVE PushAll(_, _, _, _, _)
PushAll(heap, hashmap, order, lo, hi) ==
  IF lo > hi THEN heap
  ELSE IF lo = hi
  THEN HeapPush(heap, [weight |-> hashmap[IterKey(order, lo)],
                       symbol |-> IterKey(order, lo), id |-> lo])
  ELSE LET half == PushAll(heap, hashmap, order, lo, (lo + hi) \div 2)
       IN IF Len(half) > 0 THEN PushAll(half, hashmap, order, (lo + hi) \div 2 + 1, hi)
          ELSE half

\* CodeBuilder::from_iter(hashmap).finish() for the given iteration order
convert_hashmap_to_weights_in(hashmap, order) ==
  MergeRounds([heap |-> PushAll(<<>>, hashmap, order, 1, NumSymbols),
               arena |-> SubSeq([k \in 1..NumSymbols |->
                                   [parent |-> 0, leaf |-> TRUE, symbol |-> IterKey(order, k),
                                    left |-> 0, right |-> 0]], 1, NumSymbols)],
              NumSymbols - 1).arena

\* the leaf of a symbol
LeafOf(arena, symbol) == CHOOSE k \in 1..NumSymbols : arena[k].symbol = symbol

\* Book: the code words of all symbols, symbol k at place k + 1
BookOf(arena) ==
  [k \in 1..NumSymbols |->
     Climb(arena, [node |-> LeafOf(arena, k - 1), word |-> <<>>], NumSymbols - 1).word]

\* the codebook of the static codec, GameEncoder::new / GameDecoder::new
StaticTree == convert_hashmap_to_weights(get_lichess_hashmap)

StaticBook == [symbol \in 0..(NumSymbols - 1) |-> BookEncode(StaticTree, symbol)]

\* ------------------------------------------------------- dynamic weights
\* (height, dev) pairs of the dynamic codec.  floor[d + 1] is the integer
\* change that `(*value as f64 + gaussian(mean, key)) as u64` makes to a weight
\* at distance d = |key - mean|, i.e. the floor of height * exp(-d^2 / (2 dev^2));
\* for these pairs the f64 sum is exact on all weights below 2^31.
GaussianParams ==
  <<
    [height |-> "742325.3537353727", dev |-> "2.5635425103971308", floor |->
      <<
        742325, 687941, 547550, 374292, 219742, 110797, 47980, 17844, 5699, 1563, 368, 74, 12, 1, 0, 0,
        0, 0, 0, 0, 0, 0, 0, 0, 0, 0, 0, 0, 0, 0, 0, 0,
        0, 0, 0, 0, 0, 0, 0, 0, 0, 0, 0, 0, 0, 0, 0, 0,
        0, 0, 0, 0, 0, 0, 0, 0, 0, 0, 0, 0, 0, 0, 0, 0,
        0, 0, 0, 0, 0, 0, 0, 0, 0, 0, 0, 0, 0, 0, 0, 0,
        0, 0, 0, 0, 0, 0, 0, 0, 0, 0, 0, 0, 0, 0, 0, 0,
        0, 0, 0, 0, 0, 0, 0, 0, 0, 0, 0, 0, 0, 0, 0, 0,
        0, 0, 0, 0, 0, 0, 0, 0, 0, 0, 0, 0, 0, 0, 0, 0,
        0, 0, 0, 0, 0, 0, 0, 0, 0, 0, 0, 0, 0, 0, 0, 0,
        0, 0, 0, 0, 0, 0, 0, 0, 0, 0, 0, 0, 0, 0, 0, 0,
        0, 0, 0, 0, 0, 0, 0, 0, 0, 0, 0, 0, 0, 0, 0, 0,
        0, 0, 0, 0, 0, 0, 0, 0, 0, 0, 0, 0, 0, 0, 0, 0,
        0, 0, 0, 0, 0, 0, 0, 0, 0, 0, 0, 0, 0, 0, 0, 0,
        0, 0, 0, 0, 0, 0, 0, 0, 0, 0, 0, 0, 0, 0, 0, 0,
        0, 0, 0, 0, 0, 0, 0, 0, 0, 0, 0, 0, 0, 0, 0, 0,
        0, 0, 0, 0, 0, 0, 0, 0, 0, 0, 0, 0, 0, 0, 0, 0
      >>],
    [height |-> "-1000.0", dev |-> "100.0", floor |->
      <<
        -1000, -1000, -1000, -1000, -1000, -999, -999, -998, -997, -996, -996, -994, -993, -992, -991, -989,
        -988, -986, -984, -983, -981, -979, -977, -974, -972, -970, -967, -965, -962, -959, -956, -954,
        -951, -948, -944, -941, -938, -934, -931, -927, -924, -920, -916, -912, -908, -904, -900, -896,
        -892, -887, -883, -879, -874, -869, -865, -860, -855, -851, -846, -841, -836, -831, -826, -821,
        -815, -810, -805, -799, -794, -789, -783, -778, -772, -767, -761, -755, -750, -744, -738, -732,
        -727, -721, -715, -709, -703, -697, -691, -685, -679, -673, -667, -661, -655, -649, -643, -637,
        -631, -625, -619, -613, -607, -601, -595, -589, -583, -577, -571, -565, -559, -553, -547, -541,
        -535, -529, -523, -517, -511, -505, -499, -493, -487, -481, -476, -470, -464, -458, -453, -447,
        -441, -436, -430, -424, -419, -413, -408, -403, -397, -392, -386, -381, -376, -371, -365, -360,
        -355, -350, -345, -340, -335, -330, -325, -320, -315, -311, -306, -301, -297, -292, -288, -283,
        -279, -274, -270, -265, -261, -257, -253, -248, -244, -240, -236, -232, -228, -224, -221, -217,
        -213, -209, -206, -202, -198, -195, -191, -188, -185, -181, -178, -175, -171, -168, -165, -162,
        -159, -156, -153, -150, -147, -144, -141, -139, -136, -133, -131, -128, -125, -123, -120, -118,
        -115, -113, -111, -108, -106, -104, -102, -100, -98, -95, -93, -91, -89, -87, -86, -84,
        -82, -80, -78, -77, -75, -73, -72, -70, -68, -67, -65, -64, -62, -61, -59, -58,
        -57, -55, -54, -53, -51, -50, -49, -48, -47, -46, -44, -43, -42, -41, -40, -39
      >>]
  >>
Params == DOMAIN GaussianParams

CanonicalParam == 1

Abs(x) == IF x < 0 THEN 0 - x ELSE x

gaussian(p, mean, x) == GaussianParams[p].floor[Abs(x - mean) + 1]

\* the cast `as u64` saturates; only the lower end is within reach of the
\* weights of the modelled games
AsU64(v) == IF v < 0 THEN 0 ELSE v

adjust_haspmap(hashmap, p, mean) ==
  [key \in DOMAIN hashmap |-> AsU64(hashmap[key] + gaussian(p, mean, key))]

\* ----------------------------------------------------------- header block
\* a header string is a sequence of bytes; PgnHeaders are the seven strings
\* Event, Site, Date, Round, White, Black, Result
EmptyHeaders == << <<>>, <<>>, <<>>, <<>>, <<>>, <<>>, <<>> >>

\* [Round "?"] and [Result "*"]
UnknownHeaders == << <<>>, <<>>, <<>>, <<63>>, <<>>, <<>>, <<42>> >>

\* [Site "a"] only
SiteHeaders == << <<>>, <<97>>, <<>>, <<>>, <<>>, <<>>, <<>> >>

\* an Event of 65 different characters: ZlibEncode stores the payload as it
\* is, so the block is 6 + 56 + 65 = 127 bytes, the longest the prefix can hold
LongHeaders == << [k \in 1..65 |-> 32 + k], <<>>, <<>>, <<>>, <<>>, <<>>, <<>> >>

\* one character more: a block of 128 bytes
OverlongHeaders == << [k \in 1..66 |-> 32 + k], <<>>, <<>>, <<>>, <<>>, <<>>, <<>> >>

HeaderChoices == {EmptyHeaders, UnknownHeaders, SiteHeaders, LongHeaders, OverlongHeaders}

\* PgnHeaders::is_empty: all seven strings are empty
HeadersIsEmpty(headers) == \A i \in 1..7 : headers[i] = <<>>

\* bincode: a string is its length as u64, little endian, then its bytes
U64LE(n) == <<n % 256, (n \div 256) % 256, (n \div 65536) % 256, 0, 0, 0, 0, 0>>

SerializeString(s) == U64LE(Len(s)) \o s

Serialize(headers) ==
  SerializeString(headers[1]) \o SerializeString(headers[2])
  \o SerializeString(headers[3]) \o SerializeString(headers[4])
  \o SerializeString(headers[5]) \o SerializeString(headers[6])
  \o SerializeString(headers[7])

RECURSIVE DeserializeFrom(_, _, _)
DeserializeFrom(bytes, at, headers) ==
  IF Len(headers) = 7 THEN [ok |-> TRUE, headers |-> headers]
  ELSE IF at + 8 > Len(bytes) THEN Err
  ELSE LET len == bytes[at + 1] + 256 * bytes[at + 2] + 65536 * bytes[at + 3]
           wide == \E i \in 4..8 : bytes[at + i] # 0
       IN IF wide \/ at + 8 + len > Len(bytes) THEN Err
          ELSE IF \E i \in 1..len : bytes[at + 8 + i] > 127 THEN Err
          ELSE DeserializeFrom(bytes, at + 8 + len,
                               Append(headers, SubSeq(bytes, at + 9, at + 8 + len)))

Deserialize(bytes) == DeserializeFrom(bytes, 0, <<>>)

RECURSIVE SumOver(_, _, _)
SumOver(s, lo, hi) ==
  IF lo > hi THEN 0
  ELSE IF lo = hi THEN s[lo]
  ELSE SumOver(s, lo, (lo + hi) \div 2) + SumOver(s, ((lo + hi) \div 2) + 1, hi)

\* the Adler-32 trailer of a zlib stream, big endian
Adler32(data) ==
  LET n == Len(data)
      a == (1 + SumOver(data, 1, n)) % 65521
      b == (n + SumOver([i \in 1..n |-> (n + 1 - i) * data[i]], 1, n)) % 65521
  IN <<b \div 256, b % 256, a \div 256, a % 256>>

\* ZlibEncoder at Compression::best: header 0x78 0xDA, payload, Adler-32
ZlibEncode(data) == <<120, 218>> \o data \o Adler32(data)

ZlibDecode(bytes) ==
  IF Len(bytes) < 6 THEN Err
  ELSE LET data == SubSeq(bytes, 3, Len(bytes) - 4)
       IN IF bytes[1] = 120 /\ bytes[2] = 218
             /\ SubSeq(bytes, Len(bytes) - 3, Len(bytes)) = Adler32(data)
          THEN [ok |-> TRUE, data |-> data]
          ELSE Err

compress_headers(headers) ==
  IF HeadersIsEmpty(headers) THEN <<>>
  ELSE FromBytes(ZlibEncode(Serialize(headers)))

\* the first byte of the data read as a number (fewer than 8 bits: as many as
\* there are)
HeaderLengthPrefix(bit_vec) ==
  SumOver([i \in 1..8 |-> Pow2(8 - i) * BitAt(bit_vec, i)], 1, 8)

\* decompress_headers; "panic" is an index out of bounds
decompress_headers(bit_vec) ==
  IF Len(bit_vec) = 0 THEN [kind |-> "panic"]
  ELSE IF bit_vec[1] = 1
  THEN [kind |-> "ok", headers |-> EmptyHeaders, header_bytes_len |-> 0]
  ELSE LET header_bytes_len == HeaderLengthPrefix(bit_vec)
           slice == get_bitvec_slice(bit_vec, 8, (header_bytes_len + 1) * 8)
       IN IF ~slice.ok THEN [kind |-> "err"]
          ELSE LET inflated == ZlibDecode(ToBytes(slice.bits))
               IN IF ~inflated.ok THEN [kind |-> "err"]
                  ELSE LET headers == Deserialize(inflated.data)
                       IN IF ~headers.ok THEN [kind |-> "err"]
                          ELSE [kind |-> "ok", headers |-> headers.headers,
                                header_bytes_len |-> (header_bytes_len + 1) * 8]

\* the conversion with the range of u8 in place of i8
u8_try_from(n) == IF n > 255 THEN Err ELSE [ok |-> TRUE, value |-> n]

\* i8::try_from(usize): an error above i8::MAX
i8_try_from(n) == IF n > 127 THEN Err ELSE [ok |-> TRUE, value |-> n]

\* the length prefix with BitVec::from_elem(1, false) for a game without headers
FramePrefixFalse(headers) ==
  IF Len(headers) = 0 THEN [ok |-> TRUE, bits |-> <<0>>]
  ELSE IF ~i8_try_from(Len(ToBytes(headers))).ok THEN Err
  ELSE [ok |-> TRUE, bits |-> i8_to_bit_vec(i8_try_from(Len(ToBytes(headers))).value)]

\* the length prefix of compress_pgn_data: the single bit 1 without headers,
\* else the number of header bytes as i8 (an error above 127)
FramePrefix(headers) ==
  IF Len(headers) = 0 THEN [ok |-> TRUE, bits |-> <<1>>]
  ELSE IF ~i8_try_from(Len(ToBytes(headers))).ok THEN Err
  ELSE [ok |-> TRUE, bits |-> i8_to_bit_vec(i8_try_from(Len(ToBytes(headers))).value)]

\* compress_pgn_data / compress_pgn_data_custom, given the encoded moves
compress_pgn_data(headers, bit_moves) ==
  LET block == compress_headers(headers)
      prefix == FramePrefix(block)
  IN IF ~prefix.ok THEN Err
     ELSE [ok |-> TRUE, bits |-> prefix.bits \o block \o bit_moves]

\* ------------------------------------------------------------- PGN text
\* Display for PgnData: the seven tag values, the numbered moves, the result
to_string(headers, moves) ==
  [tags |-> headers,
   movetext |-> [k \in 1..Len(moves) |->
                   IF k % 2 = 1 THEN <<(k + 1) \div 2, moves[k]>> ELSE <<moves[k]>>],
   result |-> headers[7]]

\* what <codec>_decompress_pgn_str returns for a failed decompression
EmptyString == <<>>

\* PgnData::is_empty: no headers and no moves
PgnIsEmpty(headers, moves) == HeadersIsEmpty(headers) /\ Len(moves) = 0

\* ------------------------------------------------------------------ state
VARIABLES
  codec,            \* "static" (huffman.rs) or "dynamic" (dynamic_huffman.rs)
  param,            \* the (height, dev) pair of the dynamic codec
  api,              \* "data": compress_pgn_data / decompress_pgn_data on a BitVec,
                    \* "str": the byte-level string functions of export_to_wasm,
                    \* "raw": decompress_pgn_data on a bit vector of any origin
  pgn,              \* the game being compressed: headers and SAN moves
  pos,              \* encoder: the position
  bit_moves,        \* encoder: the encoded moves
  white_hashmap,    \* encoder: White's weights (dynamic)
  black_hashmap,    \* encoder: Black's weights (dynamic)
  is_white,         \* encoder: the colour flag (dynamic)
  enc_log,          \* per encoded symbol: the table its book was built from
                    \* and the encoder's state after it
  frame,            \* what compress_pgn_data returned
  wire,             \* the BitVec handed to decompress_pgn_data
  d_headers,        \* decoder: the headers read
  move_bits,        \* decoder: the bits still to decode
  d_pos,            \* decoder: the position
  d_white_hashmap,  \* decoder: White's weights (dynamic)
  d_black_hashmap,  \* decoder: Black's weights (dynamic)
  d_is_white,       \* decoder: the colour flag (dynamic)
  d_used,           \* decoder: the table the last codebook was built from
  d_count,          \* decoder: symbols taken from the static tree decoder
  bitstring,        \* decoder: the code word of the index decoded last (dynamic)
  moves,            \* decoder: the moves decoded
  pc,               \* "encode", "decode", "decode_moves", "done"
  result,           \* the outcome of decompression
  gen_order,        \* ranking: the order the move generator used
  ranked,           \* ranking: the list generate_moves returned
  book_order,       \* codebook: the order the HashMap handed out its entries
  book,             \* codebook: the Book, the code word of every symbol
  tree_order,       \* codebook: the order the decoder's HashMap handed them out
  dec_tree,         \* codebook: the Tree the decoder built
  command,          \* CLI: the subcommand given on the command line
  exit_code,        \* CLI: the exit status of the process
  stdout,           \* CLI: the lines printed
  output_file,      \* CLI: the file at output_path
  config,           \* GA: the GeneticAlgorithmConfig
  ga_pc,            \* GA: the position in genetic_algorithm
  population,       \* GA: the population, (Individual, fitness) pairs
  parents,          \* GA: the parents select_parents has chosen
  children,         \* GA: the children created, not yet evaluated
  gen_num,          \* GA: the generation counter of the loop
  log,              \* GA: the lines written to output_path
  evaluated,        \* GA: the number of calls of fitness_function so far
  sampled,          \* GA: the tournaments select_parents drew, as places in population
  db,               \* corpus: the lines of the PGN database file
  reader,           \* corpus: the number of lines read from the file
  buffer,           \* corpus: PgnDBIter::buffer, the line read last
  yielded           \* corpus: what the calls of PgnDBIter::next returned

enc_vars == <<pos, bit_moves, white_hashmap, black_hashmap, is_white, enc_log>>
dec_vars == <<d_headers, move_bits, d_pos, d_white_hashmap, d_black_hashmap,
              d_is_white, d_used, d_count, bitstring, moves>>
rank_vars == <<gen_order, ranked>>
book_vars == <<book_order, book, tree_order, dec_tree>>
cli_vars == <<command, exit_code, stdout, output_file>>
ga_vars == <<config, ga_pc, population, parents, children, gen_num, log, evaluated,
             sampled>>
iter_vars == <<db, reader, buffer, yielded>>
other_vars == <<rank_vars, book_vars, cli_vars, ga_vars, iter_vars>>
codec_vars == <<codec, param, api, pgn, enc_vars, frame, wire, dec_vars, pc, result>>
vars == <<codec_vars, rank_vars, book_vars, cli_vars, ga_vars, iter_vars>>

Codecs == {"static", "dynamic"}

\* the static codec has no weight tables of its own
NoTable == <<>>

StartTable(c) == IF c = "dynamic" THEN get_lichess_hashmap ELSE NoTable

NoResult == [kind |-> "none"]

\* the process has not exited
Running == -1

\* nothing exists at output_path
NoFile == [exists |-> FALSE]

\* genetic_algorithm has not been called
NoConfig == [init_population |-> 0, generations |-> 0, tournament_size |-> 0,
             mutation_rate |-> 0, height_min |-> 0, height_max |-> 0,
             dev_min |-> 0, dev_max |-> 0]

\* String::new(): a string is the sequence of its tokens
NoLine == <<>>

InitAll(c, p, cmd, file) ==
  /\ codec = c
  /\ param = p
  /\ api = "data"
  /\ pgn = [headers |-> EmptyHeaders, moves |-> <<>>]
  /\ pos = InitialPosition
  /\ bit_moves = <<>>
  /\ white_hashmap = StartTable(c)
  /\ black_hashmap = StartTable(c)
  /\ is_white = TRUE
  /\ enc_log = <<>>
  /\ frame = Err
  /\ wire = <<>>
  /\ d_headers = EmptyHeaders
  /\ move_bits = <<>>
  /\ d_pos = InitialPosition
  /\ d_white_hashmap = StartTable(c)
  /\ d_black_hashmap = StartTable(c)
  /\ d_is_white = TRUE
  /\ d_used = NoTable
  /\ d_count = 0
  /\ bitstring = <<>>
  /\ moves = <<>>
  /\ pc = "encode"
  /\ result = NoResult
  /\ gen_order = "forward"
  /\ ranked = <<>>
  /\ book_order = "ascending"
  /\ book = <<>>
  /\ tree_order = "ascending"
  /\ dec_tree = <<>>
  /\ command = cmd
  /\ exit_code = Running
  /\ stdout = <<>>
  /\ output_file = file
  /\ config = NoConfig
  /\ ga_pc = "idle"
  /\ population = <<>>
  /\ parents = <<>>
  /\ children = <<>>
  /\ gen_num = 0
  /\ log = <<>>
  /\ evaluated = 0
  /\ sampled = <<>>
  /\ db = <<>>
  /\ reader = 0
  /\ buffer = NoLine
  /\ yielded = <<>>

\* the library functions called directly: no command, no output file
InitWith(c, p) == InitAll(c, p, "none", NoFile)

Init ==
  \E c \in Codecs : \E p \in Params :
    /\ (c = "static" => p = CanonicalParam)
    /\ InitWith(c, p)

\* ---------------------------------------------------------------- encoder
\* the encoder taking the tables the other way round
EncoderHashmapSwapped(white, black, flag) == IF flag THEN black ELSE white

\* the hashmap for the current player (compress_moves_custom)
EncoderHashmap(white, black, flag) == IF flag THEN white ELSE black

\* the body of the loop of compress_moves (GameEncoder::encode) or of
\* compress_moves_custom once the move and its index are known
EncodeIndex(san_move, index) ==
  /\ pos' = san_move.next
  /\ IF codec = "static"
     THEN /\ bit_moves' = bit_moves \o StaticBook[index]
          /\ UNCHANGED <<white_hashmap, black_hashmap, is_white, enc_log>>
     ELSE /\ bit_moves' = bit_moves \o
                            BookEncode(convert_hashmap_to_weights(
                                         EncoderHashmap(white_hashmap, black_hashmap, is_white)),
                                       index)
          /\ white_hashmap' = IF is_white
                              THEN adjust_haspmap(white_hashmap, param, index)
                              ELSE white_hashmap
          /\ black_hashmap' = IF is_white
                              THEN black_hashmap
                              ELSE adjust_haspmap(black_hashmap, param, index)
          /\ is_white' = ~is_white
          /\ enc_log' = Append(enc_log,
                               [used |-> EncoderHashmap(white_hashmap, black_hashmap, is_white),
                                white |-> white_hashmap',
                                black |-> black_hashmap',
                                is_white |-> is_white',
                                pos |-> pos'])

\* one round of the loop, on the next SAN move of the game
EncodeMoveUpTo(san, limit) ==
  /\ pc = "encode"
  /\ Len(pgn.moves) < limit
  /\ san \in BookSans(Positions[pos])
  /\ pgn' = [pgn EXCEPT !.moves = Append(@, san)]
  /\ EncodeIndex(to_move(Positions[pos], san).move,
                 get_move_index(Positions[pos], to_move(Positions[pos], san).move).index)
  /\ UNCHANGED <<codec, param, api, frame, wire, dec_vars, pc, result, other_vars>>

EncodeMove(san) == EncodeMoveUpTo(san, MaxPlies)

\* compress_pgn_str of export_to_wasm, from what compress_pgn_data returned
compress_pgn_str(headers, san_moves, compressed) ==
  IF PgnIsEmpty(headers, san_moves) \/ ~compressed.ok THEN <<>>
  ELSE ToBytes(compressed.bits)

\* compress_pgn_data on the game with headers h; through the string functions
\* the bit vector is turned into bytes (compress_pgn_str) and the bytes back
\* into a bit vector (decompress_pgn_str)
Compress(h, a) ==
  /\ pc = "encode"
  /\ a \in {"data", "str"}
  /\ pgn' = [pgn EXCEPT !.headers = h]
  /\ api' = a
  /\ frame' = compress_pgn_data(h, bit_moves)
  /\ IF a = "data"
     THEN IF frame'.ok
          THEN wire' = frame'.bits /\ pc' = "decode" /\ result' = result
          ELSE wire' = wire /\ pc' = "done" /\ result' = [kind |-> "compress_err"]
     ELSE /\ wire' = FromBytes(compress_pgn_str(h, pgn.moves, frame'))
          /\ pc' = "decode"
          /\ result' = result
  /\ UNCHANGED <<codec, param, enc_vars, dec_vars, other_vars>>

\* a bit vector of any origin is given to decompress_pgn_data
RawVectors == UNION {[1..n -> Bit] : n \in 0..MaxRawBits}

Receive(v) ==
  /\ pc = "encode"
  /\ pgn.moves = <<>>
  /\ api' = "raw"
  /\ wire' = v
  /\ pc' = "decode"
  /\ UNCHANGED <<codec, param, pgn, enc_vars, frame, dec_vars, result, other_vars>>

\* ---------------------------------------------------------------- decoder
Finish(r) ==
  /\ pc' = "done"
  /\ result' = r

\* decompress_pgn_data / decompress_pgn_data_custom from the headers h that
\* decompress_headers returned up to the call of decompress_moves
SliceMoves(h) ==
  IF h.kind # "ok"
  THEN Finish([kind |-> h.kind]) /\ UNCHANGED dec_vars
  ELSE IF ~get_bitvec_slice(wire, IF h.header_bytes_len = 0 THEN 1 ELSE h.header_bytes_len,
                            Len(wire)).ok
  THEN Finish([kind |-> "err"]) /\ UNCHANGED dec_vars
  ELSE /\ d_headers' = h.headers
       /\ move_bits' = get_bitvec_slice(wire,
                                        IF h.header_bytes_len = 0 THEN 1
                                        ELSE h.header_bytes_len,
                                        Len(wire)).bits
       /\ pc' = "decode_moves"
       /\ UNCHANGED <<result, d_pos, d_white_hashmap, d_black_hashmap,
                      d_is_white, d_used, d_count, bitstring, moves>>

DecodeHeaders ==
  /\ pc = "decode"
  /\ SliceMoves(decompress_headers(wire))
  /\ UNCHANGED <<codec, param, api, pgn, enc_vars, frame, wire, other_vars>>

Decoded == [kind |-> "ok", headers |-> d_headers, moves |-> moves]

\* the position table ends here: the decoder went on from a position outside it
Unmodelled == [kind |-> "unmodelled"]

\* the number of symbols Tree::decoder(bits, 256) hands out at most
DecoderSymbols == 256

\* the body of `for i in self.tree.decoder(move_bits, 256)` in
\* GameDecoder::decode_all, for the i the tree decoder hands out next
StaticPlay(i, legal) ==
  IF i.symbol >= Len(legal)
  THEN Finish([kind |-> "err"]) /\ UNCHANGED dec_vars
  ELSE /\ d_pos' = legal[i.symbol + 1].next
       /\ moves' = Append(moves, legal[i.symbol + 1].san)
       /\ move_bits' = SubSeq(move_bits, i.used + 1, Len(move_bits))
       /\ d_count' = d_count + 1
       /\ UNCHANGED <<pc, result, d_headers, d_white_hashmap,
                      d_black_hashmap, d_is_white, d_used, bitstring>>

StaticDecode(i) ==
  IF d_count >= DecoderSymbols \/ ~i.some
  THEN Finish(Decoded) /\ UNCHANGED dec_vars
  ELSE IF d_pos = OffTable
  THEN Finish(Unmodelled) /\ UNCHANGED dec_vars
  ELSE StaticPlay(i, generate_moves(Positions[d_pos]))

StaticDecodeMove == StaticDecode(TreeDecodeNext(StaticTree, move_bits))

\* the decoder taking the tables the other way round
DecoderHashmapSwapped(white, black, flag) == IF flag THEN black ELSE white

\* the hashmap for the current player (decompress_moves_custom)
DecoderHashmap(white, black, flag) == IF flag THEN white ELSE black

\* the comparison without the tests of the position
DecoderDoneOnBits(word, remaining, next) == word = remaining

\* the comparison that ends the loop of decompress_moves_custom
DecoderDone(word, remaining, next) ==
  word = remaining \/ Positions[next].is_checkmate \/ Positions[next].is_stalemate

\* the body of the loop of decompress_moves_custom once the move m of index
\* `index` is known; word is the code of the index in the current book
DynamicPlay(m, index, word) ==
  /\ d_pos' = m.next
  /\ bitstring' = word
  /\ moves' = Append(moves, m.san)
  /\ d_white_hashmap' = IF d_is_white
                        THEN adjust_haspmap(d_white_hashmap, param, index)
                        ELSE d_white_hashmap
  /\ d_black_hashmap' = IF d_is_white
                        THEN d_black_hashmap
                        ELSE adjust_haspmap(d_black_hashmap, param, index)
  /\ d_is_white' = ~d_is_white
  /\ d_used' = DecoderHashmap(d_white_hashmap, d_black_hashmap, d_is_white)
  /\ UNCHANGED <<d_headers, d_count>>
  /\ IF m.next = OffTable
     THEN /\ move_bits' = move_bits
          /\ IF word = move_bits
             THEN Finish([kind |-> "ok", headers |-> d_headers, moves |-> moves'])
             ELSE Finish(Unmodelled)
     ELSE IF DecoderDone(word, move_bits, m.next)
     THEN /\ move_bits' = move_bits
          /\ Finish([kind |-> "ok", headers |-> d_headers, moves |-> moves'])
     ELSE IF ~get_bitvec_slice(move_bits, Len(word), Len(move_bits)).ok
     THEN move_bits' = move_bits /\ Finish([kind |-> "err"])
     ELSE /\ move_bits' = get_bitvec_slice(move_bits, Len(word), Len(move_bits)).bits
          /\ UNCHANGED <<pc, result>>

\* a decoder that returns the moves it has when the index has no move
DynamicLookupLenient(tree, i, legal) ==
  IF i.symbol >= Len(legal)
  THEN Finish(Decoded) /\ UNCHANGED dec_vars
  ELSE DynamicPlay(legal[i.symbol + 1], i.symbol, BookEncode(tree, i.symbol))

\* legal_moves.get(index).ok_or(..)? and the rest of the loop body
DynamicLookup(tree, i, legal) ==
  IF i.symbol >= Len(legal)
  THEN Finish([kind |-> "err"]) /\ UNCHANGED dec_vars
  ELSE DynamicPlay(legal[i.symbol + 1], i.symbol, BookEncode(tree, i.symbol))

DynamicDecode(tree, i) ==
  IF ~i.some
  THEN Finish([kind |-> "err"]) /\ UNCHANGED dec_vars
  ELSE IF d_pos = OffTable
  THEN Finish(Unmodelled) /\ UNCHANGED dec_vars
  ELSE DynamicLookup(tree, i, generate_moves(Positions[d_pos]))

DynamicTree(tree) == DynamicDecode(tree, TreeDecodeNext(tree, move_bits))

\* one round of the loop of decompress_moves_custom
DynamicDecodeMove ==
  DynamicTree(convert_hashmap_to_weights(
                DecoderHashmap(d_white_hashmap, d_black_hashmap, d_is_white)))

DecodeMove ==
  /\ pc = "decode_moves"
  /\ IF codec = "static" THEN StaticDecodeMove ELSE DynamicDecodeMove
  /\ UNCHANGED <<codec, param, api, pgn, enc_vars, frame, wire, other_vars>>

Next ==
  \/ \E san \in BookSans(Positions[pos]) : EncodeMove(san)
  \/ \E h \in HeaderChoices : \E a \in {"data", "str"} : Compress(h, a)
  \/ \E v \in RawVectors : Receive(v)
  \/ DecodeHeaders
  \/ DecodeMove

Spec == Init /\ [][Next]_vars

\* ------------------------------------------------- long games, static codec
\* the knights go out and back: Nf3 Nf6 Ng1 Ng8 and again
ShuffleSans == {"Nf3", "Nf6", "Ng1", "Ng8"}

\* the shortest game SpecLong compresses
MinShufflePlies == 255

InitLong == InitWith("static", CanonicalParam)

EncodeShuffle(san) ==
  /\ san \in ShuffleSans
  /\ EncodeMoveUpTo(san, MaxShufflePlies)

CompressLong ==
  /\ Len(pgn.moves) >= MinShufflePlies
  /\ Compress(EmptyHeaders, "data")

NextLong ==
  \/ \E san \in ShuffleSans : EncodeShuffle(san)
  \/ CompressLong
  \/ DecodeHeaders
  \/ DecodeMove

SpecLong == InitLong /\ [][NextLong]_vars

\* ------------------------------------------------------------ move ranking
\* the positions of the table, each ranked from either generator order
InitRank == InitWith("static", CanonicalParam)

\* pos.play_unchecked on a move of the table
RankPlay(san) ==
  /\ san \in BookSans(Positions[pos])
  /\ pos' = to_move(Positions[pos], san).move.next
  /\ ranked' = <<>>
  /\ UNCHANGED <<codec, param, api, pgn, bit_moves, white_hashmap, black_hashmap,
                 is_white, enc_log, frame, wire, dec_vars, pc, result, gen_order,
                 book_vars, cli_vars, ga_vars, iter_vars>>

\* generate_moves on the current position, the generator handing out the legal
\* moves in the given order
Generate(order) ==
  /\ gen_order' = order
  /\ ranked' = generate_moves_in(Positions[pos], order)
  /\ UNCHANGED <<codec_vars, book_vars, cli_vars, ga_vars, iter_vars>>

NextRank ==
  \/ \E san \in BookSans(Positions[pos]) : RankPlay(san)
  \/ \E order \in GeneratorOrders : Generate(order)

SpecRank == InitRank /\ [][NextRank]_vars

\* ------------------------------------------------------------------ claims
\* the game decompression is expected to return
Original == [kind |-> "ok", headers |-> pgn.headers, moves |-> pgn.moves]

\* C1: dynamic codec, bit-vector level: decompress_pgn_data_custom on the bit
\* vector compress_pgn_data_custom returned succeeds and returns the headers
\* and the moves of the game, for every game and every (height, dev).
C1_DynamicRoundTrip ==
  (codec = "dynamic" /\ api = "data" /\ frame.ok /\ pc = "done") => result = Original

\* C2: static codec, bit-vector level: decompress_pgn_data on the bit vector
\* compress_pgn_data returned succeeds and returns the headers and the moves
\* of the game, whatever the length of the game.
C2_StaticRoundTrip ==
  (codec = "static" /\ api = "data" /\ frame.ok /\ pc = "done") => result = Original

\* what dynamic_huffman_decompress_pgn_str returned
DecompressedStr ==
  IF result.kind = "ok" THEN to_string(result.headers, result.moves) ELSE EmptyString

\* C3: dynamic codec through the string functions: decompressing the bytes
\* that compressing a PGN string gave returns that string, whatever the final
\* position of the game (stated here for the games of at least one move).
C3_DynamicStrRoundTrip ==
  (codec = "dynamic" /\ api = "str" /\ pc = "done" /\ Len(pgn.moves) > 0
   /\ result.kind # "unmodelled")
  => DecompressedStr = to_string(pgn.headers, pgn.moves)

\* the zero bits that byte alignment added to the framed stream
PadBits == Len(wire) - Len(frame.bits)

\* C4: static codec: decoding the move body followed by the 1 to 7 zero bits
\* of byte alignment gives exactly the encoded moves; the pad bits decode to
\* no further move.
C4_StaticPaddingTolerance ==
  (codec = "static" /\ api = "str" /\ pc = "done" /\ frame.ok
   /\ ~PgnIsEmpty(pgn.headers, pgn.moves) /\ PadBits \in 1..7
   /\ result.kind # "unmodelled")
  => (result.kind = "ok" /\ result.moves = pgn.moves)

\* C5: bit 0 of the output of compress_pgn_data is 1 if all seven header
\* strings are empty and 0 if one of them is not, in both codecs.
C5_FramingMarker ==
  frame.ok =>
    /\ Len(frame.bits) >= 1
    /\ (\A i \in 1..7 : pgn.headers[i] = <<>>) => frame.bits[1] = 1
    /\ (\E i \in 1..7 : pgn.headers[i] # <<>>) => frame.bits[1] = 0

C5_Witness ==
  /\ frame.ok /\ codec = "dynamic" /\ Len(pgn.moves) > 0
  /\ pgn.headers = SiteHeaders /\ frame.bits[1] = 0

\* the number the first eight bits of a frame spell, highest bit first
FirstByte(bits) ==
  128 * bits[1] + 64 * bits[2] + 32 * bits[3] + 16 * bits[4]
  + 8 * bits[5] + 4 * bits[6] + 2 * bits[7] + bits[8]

\* the move bits the decoder starts from, once the headers are read
AtBodyStart == pc = "decode_moves" /\ moves = <<>> /\ api = "data"

\* the frame of a game without headers, as decompress_headers read it
PlainFrame(read) ==
  /\ Len(frame.bits) = 1 + Len(bit_moves)
  /\ frame.bits[1] = 1
  /\ SubSeq(frame.bits, 2, Len(frame.bits)) = bit_moves
  /\ read.kind = "ok"
  /\ read.header_bytes_len = 0
  /\ AtBodyStart => move_bits = bit_moves

\* the frame of a game with the header block `block` of L bytes
HeaderFrame(L, block, read) ==
  /\ L \in 1..127
  /\ 8 * L = Len(block)
  /\ Len(frame.bits) = 8 + 8 * L + Len(bit_moves)
  /\ FirstByte(frame.bits) = L
  /\ SubSeq(frame.bits, 9, 8 + 8 * L) = block
  /\ SubSeq(frame.bits, 9 + 8 * L, Len(frame.bits)) = bit_moves
  /\ read.kind = "ok"
  /\ read.header_bytes_len = 8 * (L + 1)
  /\ AtBodyStart => move_bits = bit_moves

\* C6: with headers whose compressed block has L bytes the output is the 8
\* bits of L, highest first, then the 8L bits of the block, then the move
\* body, decompress_headers reads L back and the body starts at bit 8(L+1);
\* without headers the output is the bit 1, then the body, read from bit 1.
C6_FrameLayout ==
  frame.ok =>
    IF HeadersIsEmpty(pgn.headers)
    THEN PlainFrame(decompress_headers(frame.bits))
    ELSE HeaderFrame((Len(frame.bits) - 8 - Len(bit_moves)) \div 8,
                     compress_headers(pgn.headers),
                     decompress_headers(frame.bits))

C6_Witness ==
  /\ frame.ok /\ pgn.headers = UnknownHeaders /\ Len(bit_moves) > 0
  /\ AtBodyStart /\ Len(wire) = 8 + 512 + Len(bit_moves)

\* C7: after each of the first k symbols the dynamic decoder's white table,
\* black table, colour flag and position are the dynamic encoder's, and the
\* codebook that decoded symbol k was built from the table the encoder built
\* its codebook for symbol k from.
C7_AdaptiveLockStep ==
  (codec = "dynamic" /\ api \in {"data", "str"} /\ pc \in {"decode_moves", "done"}
   /\ Len(moves) >= 1 /\ Len(moves) <= Len(enc_log))
  => /\ d_white_hashmap = enc_log[Len(moves)].white
     /\ d_black_hashmap = enc_log[Len(moves)].black
     /\ d_is_white = enc_log[Len(moves)].is_white
     /\ d_pos = enc_log[Len(moves)].pos
     /\ d_used = enc_log[Len(moves)].used

C7_Witness ==
  /\ codec = "dynamic" /\ api = "data" /\ pc = "done" /\ Len(moves) = 3
  /\ Len(enc_log) = 3 /\ d_white_hashmap # d_black_hashmap
  /\ d_black_hashmap # get_lichess_hashmap /\ ~d_is_white

\* the fields of the rank key, most significant first
Fields(p, m) ==
  <<promotion_score(m), capture_score(m), pawn_defense_score(p, m),
    move_pst_score(p.turn, m), m.to, m.from>>

LexGreater(a, b) ==
  \E k \in 1..6 : a[k] > b[k] /\ \A l \in 1..(k - 1) : a[l] = b[l]

\* C8: move_score orders any two moves of a position lexicographically by
\* (promotion, capture, pawn defense, pst delta, destination, source): the
\* move with the larger earlier field has the larger key.
C8_LexicographicKey ==
  \A a, b \in 1..Len(Positions[pos].legal_moves) :
    LexGreater(Fields(Positions[pos], Positions[pos].legal_moves[a]),
               Fields(Positions[pos], Positions[pos].legal_moves[b]))
    => move_score(Positions[pos], Positions[pos].legal_moves[a])
       > move_score(Positions[pos], Positions[pos].legal_moves[b])

\* C9: two distinct legal moves of a position never have equal keys, so the
\* sorted list is the same whatever order the generator produced the moves
\* in, and the index the encoder gives a move is the place where the decoder
\* finds it.
C9_DeterministicRanking ==
  /\ \A a, b \in 1..Len(Positions[pos].legal_moves) :
       a # b => move_score(Positions[pos], Positions[pos].legal_moves[a])
                # move_score(Positions[pos], Positions[pos].legal_moves[b])
  /\ ranked # <<>> =>
       /\ ranked = generate_moves(Positions[pos])
       /\ \A a \in 1..Len(Positions[pos].legal_moves) :
            /\ get_move_index(Positions[pos], Positions[pos].legal_moves[a]).some
            /\ ranked[get_move_index(Positions[pos],
                                     Positions[pos].legal_moves[a]).index + 1]
               = Positions[pos].legal_moves[a]

C9_Witness ==
  /\ ranked # <<>> /\ gen_order = "backward" /\ pos # InitialPosition
  /\ Len(ranked) > 30
  /\ \E a \in 1..Len(ranked) : ranked[a].capture

\* C10: for every input bit vector decompress_pgn_data returns a game or an
\* error value; it never indexes out of bounds.
C10_DecodeNeverPanics ==
  api = "raw" => result.kind # "panic"


\* ---------------------------------------------------------------- codebooks
\* the tables the dynamic encoder reaches in the first plies of a game, and the
\* codes built from them by two maps of equal content
MaxBookPlies == 2

InitBook == \E p \in Params : InitWith("dynamic", p)

EncodeBookMove(san) ==
  /\ book = <<>>
  /\ EncodeMoveUpTo(san, MaxBookPlies)

\* convert_hashmap_to_weights on the table of the player to move: the encoder
\* keeps the Book, the decoder the Tree, each from a HashMap of its own
BuildCodes(enc_order, dec_order) ==
  /\ pc = "encode"
  /\ book = <<>>
  /\ book_order' = enc_order
  /\ book' = BookOf(convert_hashmap_to_weights_in(
                      EncoderHashmap(white_hashmap, black_hashmap, is_white), enc_order))
  /\ tree_order' = dec_order
  /\ dec_tree' = convert_hashmap_to_weights_in(
                   DecoderHashmap(white_hashmap, black_hashmap, is_white), dec_order)
  /\ UNCHANGED <<codec_vars, rank_vars, cli_vars, ga_vars, iter_vars>>

NextBook ==
  \/ \E san \in BookSans(Positions[pos]) : EncodeBookMove(san)
  \/ \E enc_order \in IterationOrders : \E dec_order \in IterationOrders :
       BuildCodes(enc_order, dec_order)

SpecBook == InitBook /\ [][NextBook]_vars

\* ---------------------------------------------------------------------- CLI
\* the compress and decompress commands of main, optimization levels 1 (the
\* static codec) and 2 (the dynamic codec), on games of a few plies
MaxCliPlies == 2

Commands == {"compress", "decompress"}

\* a file that is at output_path before the command runs: an earlier output
\* of the same command
OldFile(cmd) ==
  [exists |-> TRUE,
   data |-> IF cmd = "compress" THEN <<111, 108, 100>> ELSE to_string(UnknownHeaders, <<>>)]

\* the bytes of input files that are no compressed games
InputFiles == {<<>>, <<0, 1, 2, 3>>, <<128>>}

InitCli ==
  \E c \in Codecs : \E cmd \in Commands : \E file \in {NoFile, OldFile(cmd)} :
    InitAll(c, CanonicalParam, cmd, file)

\* decompress_pgn_str of export_to_wasm, from what decompress_pgn_data returned
decompress_pgn_str(r) ==
  IF r.kind = "ok" THEN to_string(r.headers, r.moves) ELSE EmptyString

\* Vec::is_empty and String::is_empty on the result of a command
is_empty(data) == DOMAIN data = {}

\* File::create and write_all before the test of the result
WriteAlways(file, data) == [exists |-> TRUE, data |-> data]

\* the end of both commands: the message and the return on an empty result,
\* else File::create(output_path) and write_all
WriteUnlessEmpty(file, data) ==
  IF is_empty(data) THEN file ELSE [exists |-> TRUE, data |-> data]

\* what the command does with the result it computed; main returns, so the
\* process exits with status 0
CliExit(data, message) ==
  /\ stdout' = IF is_empty(data) THEN Append(stdout, message) ELSE stdout
  /\ output_file' = WriteUnlessEmpty(output_file, data)
  /\ exit_code' = 0

EncodeCliMove(san) == EncodeMoveUpTo(san, MaxCliPlies)

\* Commands::Compress on a file holding the game with headers h
CliCompress(h) ==
  /\ pc = "encode"
  /\ command = "compress"
  /\ pgn' = [pgn EXCEPT !.headers = h]
  /\ api' = "str"
  /\ frame' = compress_pgn_data(h, bit_moves)
  /\ pc' = "done"
  /\ CliExit(compress_pgn_str(h, pgn.moves, frame'), "Compression failed")
  /\ UNCHANGED <<codec, param, enc_vars, wire, dec_vars, result, command,
                 rank_vars, book_vars, ga_vars, iter_vars>>

\* the input file of Commands::Decompress holds the bytes compress_pgn_str
\* made of the game with headers h
CliReadCompressed(h) ==
  /\ command = "decompress"
  /\ Compress(h, "str")

\* the input file of Commands::Decompress holds other bytes
CliReadFile(bytes) ==
  /\ pc = "encode"
  /\ command = "decompress"
  /\ pgn.moves = <<>>
  /\ api' = "file"
  /\ wire' = FromBytes(bytes)
  /\ pc' = "decode"
  /\ UNCHANGED <<codec, param, pgn, enc_vars, frame, dec_vars, result, other_vars>>

\* the end of Commands::Decompress once decompress_pgn_data has returned; a
\* panic ends the process with status 101 and a message on stderr
CliDecompress ==
  /\ pc = "done"
  /\ command = "decompress"
  /\ exit_code = Running
  /\ result.kind # "unmodelled"
  /\ IF result.kind = "panic"
     THEN exit_code' = 101 /\ UNCHANGED <<stdout, output_file>>
     ELSE CliExit(decompress_pgn_str(result), "Decompression failed")
  /\ UNCHANGED <<codec_vars, command, rank_vars, book_vars, ga_vars, iter_vars>>

NextCli ==
  \/ \E san \in BookSans(Positions[pos]) : EncodeCliMove(san)
  \/ \E h \in HeaderChoices : CliCompress(h)
  \/ \E h \in HeaderChoices : CliReadCompressed(h)
  \/ \E bytes \in InputFiles : CliReadFile(bytes)
  \/ DecodeHeaders
  \/ DecodeMove
  \/ CliDecompress

SpecCli == InitCli /\ [][NextCli]_vars

\* -------------------------------------------------------- genetic algorithm
MaxPopulation == 3
MaxGenerations == 2
MaxTournament == 2

\* heights and devs are counted in units of 1 / GeneUnit, so that the mean of
\* two genes is exact in every generation
GeneUnit == Pow2(MaxGenerations)

\* mutation_rate in percent: never, or for a draw below one half
MutationRates == {0, 50}

\* the configurations genetic_algorithm is called with
Configs ==
  [init_population : 0..MaxPopulation,
   generations : 0..MaxGenerations,
   tournament_size : 0..MaxTournament,
   mutation_rate : MutationRates,
   height_min : {0},
   height_max : {2 * GeneUnit},
   dev_min : {GeneUnit},
   dev_max : {GeneUnit}]

\* rng.gen_range(low..=high): the values a draw can give, here the two ends
gen_range(low, high) == {low, high}

\* rng.gen_range(0.0..=1.0) in percent
UnitDraws == {0, 100}

\* fitness_function: the average bits per move the benchmark measures for the
\* individual, least for the height in the middle of the range
fitness_function(individual) ==
  Abs(individual.height - GeneUnit) + individual.dev

\* (individual, fitness) as init_population and create_new_generation pair them
Evaluated(individuals) ==
  [k \in 1..Len(individuals) |-> <<individuals[k], fitness_function(individuals[k])>>]

\* population.sort_by(|x, y| x.1.partial_cmp(&y.1)): stable, least fitness first
SortByFitness(list) == SortSeq(list, LAMBDA x, y : x[2] < y[2])

\* the lines the loop writes for the sorted population of generation g
LogLines(g, sorted) ==
  [k \in 1..Len(sorted) |->
     [generation |-> g, rank |-> k - 1, height |-> sorted[k][1].height,
      dev |-> sorted[k][1].dev, fitness |-> sorted[k][2]]]

\* the loop `for gen_num in 0..config.generations` goes on or ends
LoopOrReturn(g, cfg) == IF g < cfg.generations THEN "select_parents" ELSE "returned"

InitGa == InitWith("static", CanonicalParam)

\* genetic_algorithm is called
StartGa(cfg) ==
  /\ ga_pc = "idle"
  /\ config' = cfg
  /\ ga_pc' = "init_population"
  /\ UNCHANGED <<population, parents, children, gen_num, log, evaluated, sampled>>
  /\ UNCHANGED <<codec_vars, rank_vars, book_vars, cli_vars, iter_vars>>

\* init_population with the genes the generator draws, then File::create
InitPopulation(individuals) ==
  /\ ga_pc = "init_population"
  /\ Len(individuals) = config.init_population
  /\ population' = Evaluated(individuals)
  /\ evaluated' = evaluated + Len(individuals)
  /\ log' = <<>>
  /\ gen_num' = 0
  /\ ga_pc' = LoopOrReturn(0, config)
  /\ UNCHANGED <<config, parents, children, sampled>>
  /\ UNCHANGED <<codec_vars, rank_vars, book_vars, cli_vars, iter_vars>>

\* the winner of a tournament: tournament.sort_by(fitness), tournament.remove(0)
Winner(tournament) == SortByFitness([k \in 1..Len(tournament) |-> population[tournament[k]]])[1]

\* select_parents, the tournaments given as the places population.choose
\* picks; Vec::remove(0) panics on an empty tournament
SelectParents(tournaments) ==
  /\ ga_pc = "select_parents"
  /\ IF Len(tournaments) > 0 /\ config.tournament_size = 0
     THEN ga_pc' = "panic" /\ UNCHANGED <<parents, children>>
     ELSE /\ parents' = [k \in 1..Len(tournaments) |-> Winner(tournaments[k])]
          /\ children' = <<>>
          /\ ga_pc' = "crossover"
  /\ UNCHANGED <<config, population, gen_num, log, evaluated, sampled>>
  /\ UNCHANGED <<codec_vars, rank_vars, book_vars, cli_vars, iter_vars>>

\* a crossover that adds the genes of the parents and leaves out the halving
crossover_sum(cfg, parent1, parent2, draw1, height, draw2, dev) ==
  [height |-> IF draw1 < cfg.mutation_rate THEN height
              ELSE parent1.height + parent2.height,
   dev |-> IF draw2 < cfg.mutation_rate THEN dev
           ELSE parent1.dev + parent2.dev]

\* crossover: the mean of the parents, each gene drawn anew when the draw is
\* below the mutation rate
crossover(cfg, parent1, parent2, draw1, height, draw2, dev) ==
  [height |-> IF draw1 < cfg.mutation_rate THEN height
              ELSE (parent1.height + parent2.height) \div 2,
   dev |-> IF draw2 < cfg.mutation_rate THEN dev
           ELSE (parent1.dev + parent2.dev) \div 2]

\* one round of the loop of create_new_generation that makes the children;
\* parents.choose(..).unwrap() panics when there are no parents
PushChild(p1, p2, draw1, height, draw2, dev) ==
  /\ ga_pc = "crossover"
  /\ Len(children) < Len(population)
  /\ IF Len(parents) = 0
     THEN ga_pc' = "panic" /\ UNCHANGED children
     ELSE /\ p1 \in 1..Len(parents)
          /\ p2 \in 1..Len(parents)
          /\ children' = Append(children,
                                crossover(config, parents[p1][1], parents[p2][1],
                                          draw1, height, draw2, dev))
          /\ UNCHANGED ga_pc
  /\ UNCHANGED <<config, population, parents, gen_num, log, evaluated, sampled>>
  /\ UNCHANGED <<codec_vars, rank_vars, book_vars, cli_vars, iter_vars>>

\* the rest of the round of genetic_algorithm: the children are evaluated and
\* become the population, which is sorted and written to the log
WriteGeneration(sorted) ==
  /\ population' = sorted
  /\ evaluated' = evaluated + Len(sorted)
  /\ log' = log \o LogLines(gen_num, sorted)
  /\ gen_num' = gen_num + 1
  /\ ga_pc' = LoopOrReturn(gen_num + 1, config)
  /\ parents' = <<>>
  /\ children' = <<>>
  /\ UNCHANGED <<config, sampled>>

EndGeneration ==
  /\ ga_pc = "crossover"
  /\ Len(children) = Len(population)
  /\ WriteGeneration(SortByFitness(Evaluated(children)))
  /\ UNCHANGED <<codec_vars, rank_vars, book_vars, cli_vars, iter_vars>>

NextGa ==
  \/ \E cfg \in Configs : StartGa(cfg)
  \/ \E individuals \in UNION {[1..n -> [height : gen_range(config.height_min, config.height_max),
                                          dev : gen_range(config.dev_min, config.dev_max)]]
                               : n \in {config.init_population}} :
       InitPopulation(individuals)
  \/ \E tournaments \in [1..(Len(population) \div 2) ->
                           [1..config.tournament_size -> 1..Len(population)]] :
       SelectParents(tournaments)
  \/ \E p1, p2 \in 1..MaxPopulation : \E draw1, draw2 \in UnitDraws :
       \E height \in gen_range(config.height_min, config.height_max) :
         \E dev \in gen_range(config.dev_min, config.dev_max) :
           PushChild(p1, p2, draw1, height, draw2, dev)
  \/ EndGeneration

SpecGa == InitGa /\ [][NextGa]_vars

\* ------------------------------------ dynamic codec, games to the very end
\* the games of Spec and the shortest game that ends in stalemate
StalemateLine ==
  <<"e3", "a5", "Qh5", "Ra6", "Qxa5", "h5", "h4", "Rah6", "Qxc7", "f6",
    "Qxd7+", "Kf7", "Qxb7", "Qd3", "Qxb8", "Qh7", "Qxc8", "Kg6", "Qe6">>

InitEnd == \E p \in Params : InitWith("dynamic", p)

EncodeStalemate(san) ==
  /\ Len(pgn.moves) < Len(StalemateLine)
  /\ pgn.moves = SubSeq(StalemateLine, 1, Len(pgn.moves))
  /\ san = StalemateLine[Len(pgn.moves) + 1]
  /\ EncodeMoveUpTo(san, Len(StalemateLine))

\* a game of Spec, or the stalemate game played to its end
CompressEnd(h, a) ==
  /\ Len(pgn.moves) <= MaxPlies \/ Positions[pos].is_stalemate
  /\ Compress(h, a)

NextEnd ==
  \/ \E san \in BookSans(Positions[pos]) : EncodeMove(san)
  \/ \E san \in BookSans(Positions[pos]) : EncodeStalemate(san)
  \/ \E h \in HeaderChoices : \E a \in {"data", "str"} : CompressEnd(h, a)
  \/ DecodeHeaders
  \/ DecodeMove

SpecEnd == InitEnd /\ [][NextEnd]_vars

\* C11: through the string functions a failure is an empty result and never
\* a panic: when compression fails the bytes are empty, and decompression of
\* any bytes ends with a string (the empty one on failure), not with a panic.
C11_CleanRejection ==
  (api = "str" /\ pc = "done") =>
    /\ result.kind # "panic"
    /\ (PgnIsEmpty(pgn.headers, pgn.moves) \/ ~frame.ok) => wire = <<>>
    /\ result.kind = "err" => DecompressedStr = EmptyString

\* the number of bytes of the compressed header block of the game
BlockLength == Len(ToBytes(compress_headers(pgn.headers)))

\* the frame of a game whose header block is L bytes long
OverflowFrame(L) ==
  /\ frame.ok <=> L <= 127
  /\ ~frame.ok => (frame = Err /\ (api = "data" => result = [kind |-> "compress_err"]))
  /\ (frame.ok /\ ~HeadersIsEmpty(pgn.headers)) =>
       /\ L \in 1..127
       /\ SubSeq(frame.bits, 1, 8) = i8_to_bit_vec(L)
       /\ HeaderLengthPrefix(frame.bits) = L
       /\ frame.bits[1] = 0
       /\ SubSeq(frame.bits, 1, 8) # <<0, 0, 0, 0, 0, 0, 0, 0>>

\* C12: compress_pgn_data returns an error and no bit vector exactly when the
\* header block is longer than 127 bytes; a successful output with headers
\* starts with the block length L as eight bits, 1 <= L <= 127, so its first
\* bit is 0 and the eight bits are not all zero.  (Stated on the states in
\* which compress_pgn_data has just returned.)
C12_HeaderLengthOverflow ==
  (api \in {"data", "str"} /\ (pc = "decode" \/ result = [kind |-> "compress_err"]))
    => OverflowFrame(BlockLength)

\* a game whose header block is 128 bytes long was given to compress_pgn_data
C12_Witness ==
  /\ api = "data"
  /\ pc = "done"
  /\ Len(pgn.moves) > 0
  /\ pgn.headers = OverlongHeaders
  /\ BlockLength = 128
  /\ ~frame.ok

\* the Tree hands back symbol k for the code word the Book has for it, and
\* the code word of k in the Tree is the one of the Book
CodesAgree(k) ==
  /\ TreeDecodeNext(dec_tree, book[k + 1]) = [some |-> TRUE, symbol |-> k, used |-> Len(book[k + 1])]
  /\ Climb(dec_tree, [node |-> LeafOf(dec_tree, k), word |-> <<>>], NumSymbols - 1).word = book[k + 1]

\* C13: convert_hashmap_to_weights gives every symbol the same code word for
\* equal tables whatever the order in which the two maps hand out their
\* entries, so the Book of one and the Tree of the other agree on all symbols.
C13_CodebookDeterminism ==
  book # <<>> => \A k \in 0..(NumSymbols - 1) : CodesAgree(k)

\* the two maps were iterated in different orders over a table that holds
\* equal weights and zero weights
C13_Witness ==
  /\ book # <<>>
  /\ book_order # tree_order
  /\ \E j, k \in 0..(NumSymbols - 1) : j # k /\ white_hashmap[j] = white_hashmap[k]
  /\ \E k \in 0..(NumSymbols - 1) : EncoderHashmap(white_hashmap, black_hashmap, is_white)[k] = 0

\* the command that ran failed: nothing was compressed or decompressed
CliFailed ==
  IF command = "compress"
  THEN PgnIsEmpty(pgn.headers, pgn.moves) \/ ~frame.ok
  ELSE result.kind # "ok"

\* C14: a command that succeeded exits with status 0; one that failed exits
\* with a status other than 0 after printing one line.
C14_ExitStatus ==
  exit_code # Running =>
    /\ ~CliFailed => exit_code = 0
    /\ CliFailed => (exit_code # 0 /\ Len(stdout) = 1)

\* the result a command has computed when it ends
CliResult ==
  IF command = "compress"
  THEN compress_pgn_str(pgn'.headers, pgn'.moves, frame')
  ELSE decompress_pgn_str(result')

\* C15: the file at output_path changes only in the step that ends a
\* successful command, and then it holds the whole result; a command that
\* fails leaves the file as it was, absent or with its old content.
C15_NoPartialOutput ==
  [][output_file' # output_file =>
       /\ exit_code = Running
       /\ exit_code' = 0
       /\ ~CliFailed'
       /\ output_file' = [exists |-> TRUE, data |-> CliResult]]_vars

\* a command failed while a file was at output_path, and the file is as it was
C15_Witness ==
  /\ exit_code # Running
  /\ CliFailed
  /\ output_file = OldFile(command)

\* the lines of the log for generation g
LinesOf(g) == SelectSeq(log, LAMBDA line : line.generation = g)

\* C16: when genetic_algorithm returns the log holds one line for every
\* individual that was evaluated, the initial population included, and the
\* lines of each generation are in ascending order of fitness, ranked from 0.
C16_LogCompleteness ==
  ga_pc = "returned" =>
    /\ Len(log) = evaluated
    /\ \A g \in 0..MaxGenerations :
         \A k \in 1..Len(LinesOf(g)) :
           /\ LinesOf(g)[k].rank = k - 1
           /\ k > 1 => LinesOf(g)[k - 1].fitness <= LinesOf(g)[k].fitness

\* C17: no generation step fails, whatever the configuration; the population
\* has init_population members after every generation, and the run ends
\* after `generations` of them.
C17_PopulationReplacement ==
  /\ ga_pc # "panic"
  /\ ga_pc \in {"select_parents", "crossover", "returned"} =>
       Len(population) = config.init_population
  /\ ga_pc = "returned" => gen_num = config.generations

\* C18: the static decoder hands out one move for every code word of the move
\* body, however many there are, and stops only when no bits are left.
C18_StaticConsumesBody ==
  (codec = "static" /\ api = "data" /\ frame.ok /\ pc = "done" /\ result.kind = "ok") =>
    /\ Len(result.moves) = Len(pgn.moves)
    /\ move_bits = <<>>

\* the dynamic decoder appends a move in this step, and the position after
\* it is one of the table
DynamicAppends ==
  /\ codec = "dynamic"
  /\ pc = "decode_moves"
  /\ Len(moves') = Len(moves) + 1
  /\ d_pos' # OffTable

\* the condition under which the loop is to end after the move
StopCondition ==
  \/ bitstring' = move_bits
  \/ Positions[d_pos'].is_checkmate
  \/ Positions[d_pos'].is_stalemate

\* C19: after appending a move the dynamic decoder stops exactly when the
\* code word of the move (the bits the tree decoder read for it) is all that
\* is left of the buffer, or the position is checkmate or stalemate; the
\* result then holds the move.  Otherwise it takes exactly the code word off
\* the front of the buffer and goes on.
C19_DynamicStopRule ==
  [][DynamicAppends =>
       /\ bitstring' = SubSeq(move_bits, 1, Len(bitstring'))
       /\ Len(bitstring') > 0
       /\ IF StopCondition
          THEN /\ pc' = "done"
               /\ result' = [kind |-> "ok", headers |-> d_headers, moves |-> moves']
          ELSE /\ pc' = "decode_moves"
               /\ result' = result
               /\ move_bits' = SubSeq(move_bits, Len(bitstring') + 1, Len(move_bits))]_vars

\* the decoder stopped at a stalemate with bits left in the buffer
C19_Witness ==
  /\ codec = "dynamic"
  /\ pc = "done"
  /\ result = Decoded
  /\ Len(moves) > 0
  /\ d_pos # OffTable
  /\ Positions[d_pos].is_stalemate
  /\ bitstring # move_bits

\* the index of the SAN move san among the ranked moves of position p
IndexOf(p, san) == get_move_index(Positions[p], to_move(Positions[p], san).move).index

\* the update of move number k (from 0): `mine` is the table of the side
\* that moved, `other` the table of the other side
ColourFrame(k, flag, index, white, black, white_after, black_after, used) ==
  /\ flag <=> (k % 2 = 0)
  /\ used = (IF k % 2 = 0 THEN white ELSE black)
  /\ white_after = (IF k % 2 = 0 THEN adjust_haspmap(white, param, index) ELSE white)
  /\ black_after = (IF k % 2 = 0 THEN black ELSE adjust_haspmap(black, param, index))

\* the dynamic encoder codes a move in this step
EncoderCodes ==
  /\ codec = "dynamic"
  /\ pc = "encode"
  /\ Len(pgn'.moves) = Len(pgn.moves) + 1

\* the dynamic decoder decodes a move in this step
DecoderDecodes ==
  /\ codec = "dynamic"
  /\ pc = "decode_moves"
  /\ Len(moves') = Len(moves) + 1

\* C20: coding or decoding move number k (from 0) updates only the table of
\* the side that made it, White's for even k and Black's for odd k; the
\* other table stays as it is, the colour flag toggles, and the table the
\* move is coded with is the mover's table before the update, which, the
\* tables starting from the baseline, holds the earlier updates of that
\* colour only.
C20_PerColourFrame ==
  [][/\ EncoderCodes =>
          /\ is_white' = ~is_white
          /\ \A index \in {IndexOf(pos, pgn'.moves[Len(pgn'.moves)])} :
               ColourFrame(Len(pgn.moves), is_white, index,
                           white_hashmap, black_hashmap, white_hashmap', black_hashmap',
                           enc_log'[Len(enc_log')].used)
     /\ DecoderDecodes =>
          /\ d_is_white' = ~d_is_white
          /\ \A index \in {IndexOf(d_pos, moves'[Len(moves')])} :
               ColourFrame(Len(moves), d_is_white, index,
                           d_white_hashmap, d_black_hashmap, d_white_hashmap',
                           d_black_hashmap', d_used')]_vars

\* both sides have moved twice, in the encoder and in the decoder, and the two
\* tables differ from the baseline and from each other
C20_Witness ==
  /\ codec = "dynamic"
  /\ Len(moves) >= 4
  /\ white_hashmap # get_lichess_hashmap
  /\ black_hashmap # get_lichess_hashmap
  /\ d_white_hashmap # get_lichess_hashmap
  /\ d_black_hashmap # get_lichess_hashmap
  /\ d_white_hashmap # d_black_hashmap

\* =====================================================================
\* The weight tables at full width.  A u64 weight or an integer-valued f64 is
\* kept as three limbs <<a, b, c>> = a * Limb^2 + b * Limb + c, so that the
\* cast `as f64`, the f64 sum and the cast `as u64` of adjust_haspmap can be
\* followed up to and beyond 2^64.
Limb == Pow2(22)

Wide(a, b, c) ==
  LET c1 == c % Limb
      b0 == b + ((c - c1) \div Limb)
      b1 == b0 % Limb
  IN  <<a + ((b0 - b1) \div Limb), b1, c1>>

WideOf(n) == Wide(0, 0, n)

WideZero == <<0, 0, 0>>

\* u64::MAX, 2^64 - 1
U64Max == <<Pow2(20) - 1, Limb - 1, Limb - 1>>

WideLess(x, y) ==
  \/ x[1] < y[1]
  \/ x[1] = y[1] /\ x[2] < y[2]
  \/ x[1] = y[1] /\ x[2] = y[2] /\ x[3] < y[3]

WideAdd(x, y) == Wide(x[1] + y[1], x[2] + y[2], x[3] + y[3])

\* x - y for y <= x
WideSub(x, y) == Wide(x[1] - y[1], x[2] - y[2], x[3] - y[3])

RECURSIVE BitLen(_)
BitLen(n) == IF n = 0 THEN 0 ELSE 1 + BitLen(n \div 2)

\* the nearest f64 of an integer, ties to even: an f64 keeps 53 significant
\* bits, and the top limb starts at bit 44
RoundF64(w) ==
  LET drop == BitLen(w[1]) - 9
  IN  IF drop <= 0 THEN w
      ELSE LET ulp == Pow2(drop)
               rem == w[3] % ulp
               kept == w[3] - rem
               up == \/ 2 * rem > ulp
                     \/ 2 * rem = ulp /\ (kept \div ulp) % 2 = 1
           IN  Wide(w[1], w[2], IF up THEN kept + ulp ELSE kept)

\* an f64 whose value is an integer, or NaN
F64(n, s, m) == [nan |-> n, neg |-> s, mag |-> m]

F64Zero == F64(FALSE, FALSE, WideZero)

F64NaN == F64(TRUE, FALSE, WideZero)

\* `*value as f64`
U64AsF64(value) == F64(FALSE, FALSE, RoundF64(value))

\* x + y in f64: the exact sum, rounded
F64Add(x, y) ==
  IF x.nan \/ y.nan THEN F64NaN
  ELSE IF x.neg = y.neg THEN F64(FALSE, x.neg, RoundF64(WideAdd(x.mag, y.mag)))
  ELSE IF WideLess(x.mag, y.mag) THEN F64(FALSE, y.neg, RoundF64(WideSub(y.mag, x.mag)))
  ELSE F64(FALSE, x.neg /\ x.mag # y.mag, RoundF64(WideSub(x.mag, y.mag)))

\* a cast that wraps modulo 2^64 where the cast of the language saturates
F64AsU64Wrapping(x) ==
  IF x.nan THEN WideZero
  ELSE LET low == <<x.mag[1] % Pow2(20), x.mag[2], x.mag[3]>>
       IN  IF x.neg /\ low # WideZero THEN WideAdd(WideSub(U64Max, low), WideOf(1))
           ELSE low

\* `as u64`: NaN is 0, and a value outside the range of u64 is the nearer bound
F64AsU64(x) ==
  IF x.nan \/ x.neg THEN WideZero
  ELSE IF WideLess(U64Max, x.mag) THEN U64Max
  ELSE x.mag

\* (height, dev) pairs at the edges of f64.  With dev = 0.01 the exponent is
\* -5000 (x - mean)^2, whose exp is 0 off the mean; with dev = 0 the quotient
\* is 0/0 = NaN at the mean and infinite, with exp 0, off it.
WideParams ==
  <<
    [height |-> "9223372036854775808.0", dev |-> "0.01",
     at_mean |-> F64(FALSE, FALSE, <<Pow2(19), 0, 0>>)],
    [height |-> "-9223372036854775808.0", dev |-> "0.01",
     at_mean |-> F64(FALSE, TRUE, <<Pow2(19), 0, 0>>)],
    [height |-> "1.0", dev |-> "0.0", at_mean |-> F64NaN]
  >>

gaussian_f64(p, mean, x) == IF x = mean THEN WideParams[p].at_mean ELSE F64Zero

adjust_haspmap_f64(hashmap, p, mean) ==
  [key \in DOMAIN hashmap |->
     F64AsU64(F64Add(U64AsF64(hashmap[key]), gaussian_f64(p, mean, key)))]

\* get_lichess_hashmap at full width
WideTable == [k \in 0..(NumSymbols - 1) |-> WideOf(get_lichess_hashmap[k])]

\* ------------------------------------------------------------ SpecWeights
\* The weight updates of compress_moves_custom alone: each encoded move
\* adjusts the table of the side to move around its index, then the side
\* changes.  The code book built from the table before each update reads the
\* table only, and is left to the other specifications.
MaxUpdates == 4

UpdateMeans == {0, 1, 30}

InitWeights ==
  /\ codec = "dynamic"
  /\ param \in DOMAIN WideParams
  /\ api = "data"
  /\ pgn = [headers |-> EmptyHeaders, moves |-> <<>>]
  /\ pos = InitialPosition
  /\ bit_moves = <<>>
  /\ white_hashmap = WideTable
  /\ black_hashmap = WideTable
  /\ is_white = TRUE
  /\ enc_log = <<>>
  /\ frame = Err
  /\ wire = <<>>
  /\ d_headers = EmptyHeaders
  /\ move_bits = <<>>
  /\ d_pos = InitialPosition
  /\ d_white_hashmap = NoTable
  /\ d_black_hashmap = NoTable
  /\ d_is_white = TRUE
  /\ d_used = NoTable
  /\ d_count = 0
  /\ bitstring = <<>>
  /\ moves = <<>>
  /\ pc = "encode"
  /\ result = NoResult
  /\ gen_order = "forward"
  /\ ranked = <<>>
  /\ book_order = "ascending"
  /\ book = <<>>
  /\ tree_order = "ascending"
  /\ dec_tree = <<>>
  /\ command = "none"
  /\ exit_code = Running
  /\ stdout = <<>>
  /\ output_file = NoFile
  /\ config = NoConfig
  /\ ga_pc = "idle"
  /\ population = <<>>
  /\ parents = <<>>
  /\ children = <<>>
  /\ gen_num = 0
  /\ log = <<>>
  /\ evaluated = 0
  /\ sampled = <<>>
  /\ db = <<>>
  /\ reader = 0
  /\ buffer = NoLine
  /\ yielded = <<>>

AdjustWeights(index) ==
  /\ Len(enc_log) < MaxUpdates
  /\ white_hashmap' = (IF is_white
                       THEN adjust_haspmap_f64(white_hashmap, param, index)
                       ELSE white_hashmap)
  /\ black_hashmap' = (IF is_white
                       THEN black_hashmap
                       ELSE adjust_haspmap_f64(black_hashmap, param, index))
  /\ is_white' = ~is_white
  /\ enc_log' = Append(enc_log, index)
  /\ UNCHANGED <<codec, param, api, pgn, pos, bit_moves, frame, wire, dec_vars,
                 pc, result, other_vars>>

NextWeights == \E index \in UpdateMeans : AdjustWeights(index)

SpecWeights == InitWeights /\ [][NextWeights]_vars

\* C21: after any sequence of Gaussian updates, with a height of either sign
\* or a NaN result, both colour tables have exactly the keys 0..255 and every
\* weight lies in [0, 2^64 - 1]; a sum outside that range is stored as the
\* nearer bound.
IsU64(w) ==
  /\ w \in Seq(Nat) /\ Len(w) = 3
  /\ w[2] < Limb /\ w[3] < Limb
  /\ ~WideLess(U64Max, w)

WeightTableInvariant ==
  \A table \in {white_hashmap, black_hashmap} :
    /\ DOMAIN table = 0..(NumSymbols - 1)
    /\ \A key \in DOMAIN table : IsU64(table[key])

\* no update moves a weight against the sign of the height: a sum beyond
\* 2^64 - 1 does not come back as a small weight, nor a sum below 0 as a
\* large one
Upward == ~WideParams[param].at_mean.nan /\ ~WideParams[param].at_mean.neg

Saturates ==
  \A key \in 0..(NumSymbols - 1) :
    /\ Upward => /\ ~WideLess(white_hashmap'[key], white_hashmap[key])
                 /\ ~WideLess(black_hashmap'[key], black_hashmap[key])
    /\ ~Upward => /\ ~WideLess(white_hashmap[key], white_hashmap'[key])
                  /\ ~WideLess(black_hashmap[key], black_hashmap'[key])

C21_WeightTableInvariant == []WeightTableInvariant /\ [][Saturates]_vars

\* an upward update has stopped at 2^64 - 1
C21_Witness ==
  /\ white_hashmap[0] = U64Max
  /\ black_hashmap[1] = WideZero \/ black_hashmap[30] = U64Max

\* ------------------------------------------------------------- SpecEncode
\* The encoders on moves that may not be legal: GameEncoder::encode called
\* with a Move, and compress_pgn_data on a game whose next SAN may have no
\* legal move in the position.
MaxEncodeCalls == 2

\* Move::Normal { role: King, from: A1, to: A2 } of test_encode_invalid_move
KingA1A2 == M("Ka2", 6, 0, 8, FALSE, 0, OffTable)

TableMoves(p) ==
  {Positions[p].legal_moves[i] :
     i \in {j \in 1..Len(Positions[p].legal_moves) :
              Positions[p].legal_moves[j].next # OffTable}}

\* the moves given to the encoder in position p: moves of p, White's and
\* Black's first moves, and the king move of the test
GivenMoves(p) == TableMoves(p) \cup TableMoves(1) \cup TableMoves(2) \cup {KingA1A2}

\* their SAN texts, but for the texts of moves of p that leave the table
GivenSans(p) ==
  {m.san : m \in GivenMoves(p)} \ ({Positions[p].legal_moves[i].san : i \in 1..Len(Positions[p].legal_moves)}
                                     \ {m.san : m \in TableMoves(p)})

\* an encoder that encodes and plays whatever it is given
encode_unchecked(p, bits, m) ==
  [ok |-> TRUE, pos |-> m.next,
   bit_moves |-> bits \o StaticBook[get_move_index(Positions[p], m).index]]

\* GameEncoder::encode on an encoder with position p and bits bit_moves
encode(p, bits, m) ==
  IF get_move_index(Positions[p], m).some
  THEN [ok |-> TRUE, pos |-> m.next,
        bit_moves |-> bits \o StaticBook[get_move_index(Positions[p], m).index]]
  ELSE [ok |-> FALSE, pos |-> p, bit_moves |-> bits]

EncoderEncode(m) ==
  /\ pc = "encode"
  /\ codec = "static"
  /\ api = "encoder" \/ pgn.moves = <<>>
  /\ Len(enc_log) < MaxEncodeCalls
  /\ m \in GivenMoves(pos)
  /\ api' = "encoder"
  /\ \E r \in {encode(pos, bit_moves, m)} :
       /\ pos' = r.pos
       /\ bit_moves' = r.bit_moves
       /\ result' = [kind |-> IF r.ok THEN "encode_ok" ELSE "encode_err"]
  /\ enc_log' = Append(enc_log, m)
  /\ UNCHANGED <<codec, param, pgn, white_hashmap, black_hashmap, is_white,
                 frame, wire, dec_vars, pc, other_vars>>

\* one round of the loop of compress_moves / compress_moves_custom inside
\* compress_pgn_data: `?` on to_move, or the None arm of get_move_index, ends
\* compress_pgn_data with the error
EncodeSan(san) ==
  /\ pc = "encode"
  /\ api = "data"
  /\ Len(pgn.moves) < MaxEncodeCalls
  /\ san \in GivenSans(pos)
  /\ pgn' = [pgn EXCEPT !.moves = Append(@, san)]
  /\ IF to_move(Positions[pos], san).ok
        /\ get_move_index(Positions[pos], to_move(Positions[pos], san).move).some
     THEN /\ EncodeIndex(to_move(Positions[pos], san).move,
                         get_move_index(Positions[pos],
                                        to_move(Positions[pos], san).move).index)
          /\ UNCHANGED <<frame, pc, result>>
     ELSE /\ frame' = Err
          /\ pc' = "done"
          /\ result' = [kind |-> "compress_err"]
          /\ UNCHANGED enc_vars
  /\ UNCHANGED <<codec, param, api, wire, dec_vars, other_vars>>

CompressEncoded(h) == api = "data" /\ Compress(h, "data")

NextEncode ==
  \/ \E m \in GivenMoves(pos) : EncoderEncode(m)
  \/ \E san \in GivenSans(pos) : EncodeSan(san)
  \/ \E h \in {EmptyHeaders, SiteHeaders} : CompressEncoded(h)

SpecEncode == Init /\ [][NextEncode]_vars

\* C22: GameEncoder::encode given a move that is not a legal move of the
\* current position returns an error and leaves position and bits as they
\* were; compress_pgn_data on a game with a SAN that no legal move of its
\* position has returns an error and no bit vector.
IsLegal(p, m) == \E i \in 1..Len(Positions[p].legal_moves) : Positions[p].legal_moves[i] = m

IsLegalSan(p, san) ==
  \E i \in 1..Len(Positions[p].legal_moves) : Positions[p].legal_moves[i].san = san

EncodeCalled == api' = "encoder" /\ Len(enc_log') = Len(enc_log) + 1

SanRead == api = "data" /\ pc = "encode" /\ Len(pgn'.moves) = Len(pgn.moves) + 1

IllegalEncode ==
  /\ EncodeCalled /\ ~IsLegal(pos, enc_log'[Len(enc_log')])
       => result'.kind = "encode_err" /\ pos' = pos /\ bit_moves' = bit_moves
  /\ SanRead /\ ~IsLegalSan(pos, pgn'.moves[Len(pgn'.moves)])
       => /\ result' = [kind |-> "compress_err"]
          /\ frame' = Err
          /\ wire' = <<>>
          /\ pc' = "done"

C22_IllegalMoveOnEncode == [][IllegalEncode]_vars

\* the encoder has encoded a legal move and then refused an illegal one
C22_Witness ==
  /\ api = "encoder"
  /\ Len(enc_log) = 2
  /\ IsLegal(InitialPosition, enc_log[1])
  /\ ~IsLegal(enc_log[1].next, enc_log[2])
  /\ result.kind = "encode_err"
  /\ pos = enc_log[1].next
  /\ bit_moves # <<>>

C22_WitnessGame ==
  /\ api = "data"
  /\ Len(pgn.moves) = 2
  /\ result = [kind |-> "compress_err"]
  /\ wire = <<>>

\* C23: in both decoders a decoded index that is not below the number of
\* legal moves of the current position ends the whole decode with an error:
\* no move list is returned, the moves decoded before it included.
DecoderTree ==
  IF codec = "static" THEN StaticTree
  ELSE convert_hashmap_to_weights(DecoderHashmap(d_white_hashmap, d_black_hashmap, d_is_white))

IndexOutOfRange(i) ==
  /\ d_pos # OffTable
  /\ codec = "static" => d_count < DecoderSymbols
  /\ i.some
  /\ i.symbol >= Len(Positions[d_pos].legal_moves)

OutOfRangeIsError ==
  pc = "decode_moves" /\ IndexOutOfRange(TreeDecodeNext(DecoderTree, move_bits))
    => pc' = "done" /\ result' = [kind |-> "err"]

C23_IndexOutOfRange == [][OutOfRangeIsError]_vars

\* a decode that had decoded moves ended on an index out of range
C23_Witness ==
  /\ pc = "done"
  /\ result = [kind |-> "err"]
  /\ moves # <<>>
  /\ IndexOutOfRange(TreeDecodeNext(DecoderTree, move_bits))

C23_WitnessDynamic == C23_Witness /\ codec = "dynamic"

\* ------------------------------------------------------------- SpecSelect
\* select_parents on the initial population of a first generation, the
\* tournaments it drew kept in `sampled`.  The devs are drawn from a range of
\* two values, so that the individuals of one population differ in fitness.
MaxSelectPopulation == 4
MaxSelectTournament == 2

SelectConfigs ==
  [init_population : 0..MaxSelectPopulation,
   generations : {1},
   tournament_size : 0..MaxSelectTournament,
   mutation_rate : {0},
   height_min : {0},
   height_max : {0},
   dev_min : {GeneUnit},
   dev_max : {2 * GeneUnit}]

\* select_parents taking the last entry of the sorted tournament
select_parents_last(individuals, tournaments) ==
  [k \in 1..Len(tournaments) |->
     SortByFitness([j \in 1..Len(tournaments[k]) |-> individuals[tournaments[k][j]]])[
       Len(tournaments[k])]]

\* select_parents on tournaments that are not empty: each tournament sorted
\* by fitness, its first entry pushed to parents
select_parents(individuals, tournaments) ==
  [k \in 1..Len(tournaments) |->
     SortByFitness([j \in 1..Len(tournaments[k]) |-> individuals[tournaments[k][j]]])[1]]

SelectParentsSampled(tournaments) ==
  /\ ga_pc = "select_parents"
  /\ sampled' = tournaments
  /\ IF Len(tournaments) > 0 /\ config.tournament_size = 0
     THEN ga_pc' = "panic" /\ UNCHANGED <<parents, children>>
     ELSE /\ parents' = select_parents(population, tournaments)
          /\ children' = <<>>
          /\ ga_pc' = "crossover"
  /\ UNCHANGED <<config, population, gen_num, log, evaluated>>
  /\ UNCHANGED <<codec_vars, rank_vars, book_vars, cli_vars, iter_vars>>

NextSelect ==
  \/ \E cfg \in SelectConfigs : StartGa(cfg)
  \/ \E individuals \in UNION {[1..n -> [height : gen_range(config.height_min, config.height_max),
                                          dev : gen_range(config.dev_min, config.dev_max)]]
                               : n \in {config.init_population}} :
       InitPopulation(individuals)
  \/ \E tournaments \in [1..(Len(population) \div 2) ->
                           [1..config.tournament_size -> 1..Len(population)]] :
       SelectParentsSampled(tournaments)

SpecSelect == InitGa /\ [][NextSelect]_vars

EnemyPawnAttacks(p, to) ==
  \E q \in p.their_pawns :
    /\ (q % 8) - (to % 8) \in {-1, 1}
    /\ q \div 8 = (to \div 8) + (IF p.turn = "white" THEN 1 ELSE -1)

PawnDefenseAsClaimed(p, m) ==
  /\ m.role \in 1..6
  /\ pawn_defense_score(p, m) \in 0..6
  /\ pawn_defense_score(p, m) = (IF EnemyPawnAttacks(p, m.to) THEN 6 - m.role ELSE 6)

C25_PawnDefenseField ==
  \A i \in 1..Len(Positions[pos].legal_moves) :
    PawnDefenseAsClaimed(Positions[pos], Positions[pos].legal_moves[i])

\* the moves of the position have been ranked, among them a bishop move to a
\* square that an opponent pawn attacks, a pawn move to such a square and a
\* move to a square no pawn attacks
C25_Witness ==
  /\ ranked # <<>>
  /\ \E i, j, k \in 1..Len(ranked) :
       /\ ranked[i].role = 3 /\ pawn_defense_score(Positions[pos], ranked[i]) = 3
       /\ ranked[j].role = 1 /\ pawn_defense_score(Positions[pos], ranked[j]) = 5
       /\ pawn_defense_score(Positions[pos], ranked[k]) = 6

\* -------------------------------------------------------------- SpecSlice
\* get_bitvec_slice on a bit vector of any content, with any start and end
\* up to one past its greatest length
InitSlice == InitWith("static", CanonicalParam)

SliceIndices == 0..(MaxRawBits + 1)

Slice(start, end) ==
  /\ pc = "decode"
  /\ api = "raw"
  /\ result' = [kind |-> "slice", start |-> start, end |-> end,
                value |-> get_bitvec_slice(wire, start, end)]
  /\ UNCHANGED <<codec, param, api, pgn, enc_vars, frame, wire, dec_vars, pc, other_vars>>

NextSlice ==
  \/ \E v \in RawVectors : Receive(v)
  \/ \E start, end \in SliceIndices : Slice(start, end)

SpecSlice == InitSlice /\ [][NextSlice]_vars

\* C26: get_bitvec_slice(v, start, end) is an error exactly when start > end,
\* start > len(v) or end > len(v); otherwise it is the end - start bits
\* v[start..end) in order, the empty vector when start = end, and v is left
\* as it was.
SliceAsClaimed(v, start, end, value) ==
  /\ value.ok <=> (start <= end /\ end <= Len(v))
  /\ value.ok =>
       /\ Len(value.bits) = end - start
       /\ \A i \in 0..(end - start - 1) : value.bits[i + 1] = v[start + i + 1]
       /\ start = end => value.bits = <<>>

SliceStep ==
  result'.kind = "slice" /\ result' # result
    => /\ wire' = wire
       /\ SliceAsClaimed(wire, result'.start, result'.end, result'.value)

C26_BitSlicing == [][SliceStep]_vars

\* a proper inner slice of a vector of four bits, as in
\* test_get_bitvec_slice_subslice
C26_Witness ==
  /\ result.kind = "slice"
  /\ wire = <<1, 0, 1, 0>>
  /\ result.start = 1 /\ result.end = 3
  /\ result.value = [ok |-> TRUE, bits |-> <<0, 1>>]

\* --------------------------------------------------------------- SpecIter
\* PgnDBIter over a database file of UTF-8 text.  A line is the sequence of
\* its tokens and ends with the token "\n"; a String is a sequence of tokens.
MaxDbLines == 4

EventLine == <<"[Event", " ", "\"Rated Blitz game\"]", "\n">>
SiteLine == <<"[Site", " ", "\"https://lichess.org\"]", "\n">>
MoveLine == <<"1.", " ", "e4", " ", "e5", " ", "1-0", "\n">>
EmptyLine == <<"\n">>
SpaceLine == <<" ", "\n">>

DbLines == {EventLine, SiteLine, MoveLine, EmptyLine, SpaceLine}

DbFiles == UNION {[1..n -> DbLines] : n \in 1..MaxDbLines}

\* str::trim().is_empty()
trim_is_empty(string) == \A i \in 1..Len(string) : string[i] \in {" ", "\n"}

\* str::starts_with("[Event")
starts_with_event(string) == Len(string) > 0 /\ string[1] = "[Event"

\* the loop of PgnDBIter::next from line r of the file on, with the game
\* collected so far: what reader, buffer and game are when the loop ends
RECURSIVE ReadGame(_, _, _)
ReadGame(lines, r, game) ==
  IF r = Len(lines)
  THEN [reader |-> r, buffer |-> NoLine, game |-> game]
  ELSE IF game = <<>> /\ trim_is_empty(lines[r + 1])
  THEN ReadGame(lines, r + 1, game)
  ELSE IF starts_with_event(lines[r + 1]) /\ game # <<>>
  THEN [reader |-> r + 1, buffer |-> lines[r + 1], game |-> game]
  ELSE ReadGame(lines, r + 1, game \o lines[r + 1])

None == [some |-> FALSE]

Some(item) == [some |-> TRUE, item |-> item]

\* pgn_db_into_iter on a file that is not empty
OpenDb(lines) ==
  /\ db = <<>>
  /\ yielded = <<>>
  /\ db' = lines
  /\ reader' = 0
  /\ buffer' = NoLine
  /\ UNCHANGED yielded
  /\ UNCHANGED <<codec_vars, rank_vars, book_vars, cli_vars, ga_vars>>

\* one call of PgnDBIter::next; the calls end with the first None
IterNext ==
  /\ IF yielded = <<>> THEN TRUE ELSE yielded[Len(yielded)].some
  /\ \E got \in {ReadGame(db, reader, <<>>)} :
       /\ reader' = got.reader
       /\ buffer' = got.buffer
       /\ yielded' = Append(yielded, IF trim_is_empty(got.game) THEN None
                                     ELSE Some(got.game))
  /\ UNCHANGED db
  /\ UNCHANGED <<codec_vars, rank_vars, book_vars, cli_vars, ga_vars>>

NextIter ==
  \/ \E lines \in DbFiles : OpenDb(lines)
  \/ IterNext

SpecIter == InitSlice /\ [][NextIter]_vars

\* C27: iterating PgnDBIter over a file yields the games in file order, each
\* once, and every non-blank line of the file is in exactly one yielded game;
\* the "[Event" line that starts a later game is part of that game's text.
RECURSIVE NonBlankLines(_)
NonBlankLines(lines) ==
  IF lines = <<>> THEN <<>>
  ELSE IF trim_is_empty(lines[1]) THEN NonBlankLines(Tail(lines))
  ELSE <<lines[1]>> \o NonBlankLines(Tail(lines))

\* the lines of a text: each runs up to and with its "\n"
RECURSIVE SplitLines(_, _)
SplitLines(text, line) ==
  IF text = <<>> THEN (IF line = <<>> THEN <<>> ELSE <<line>>)
  ELSE IF text[1] = "\n" THEN <<Append(line, "\n")>> \o SplitLines(Tail(text), <<>>)
  ELSE SplitLines(Tail(text), Append(line, text[1]))

\* the games of a file: a game starts with the first non-blank line and with
\* each "[Event" line after one
RECURSIVE FileGames(_, _)
FileGames(lines, game) ==
  IF lines = <<>> THEN (IF game = <<>> THEN <<>> ELSE <<game>>)
  ELSE IF trim_is_empty(lines[1]) THEN FileGames(Tail(lines), game)
  ELSE IF starts_with_event(lines[1]) /\ game # <<>>
  THEN <<game>> \o FileGames(Tail(lines), <<lines[1]>>)
  ELSE FileGames(Tail(lines), Append(game, lines[1]))

IterationEnded == yielded # <<>> /\ ~yielded[Len(yielded)].some

C27_NoLineLost ==
  IterationEnded =>
    /\ Len(yielded) - 1 = Len(FileGames(db, <<>>))
    /\ \A k \in 1..(Len(yielded) - 1) :
         NonBlankLines(SplitLines(yielded[k].item, <<>>)) = FileGames(db, <<>>)[k]

\* C28: for a game without moves, with or without headers, the dynamic
\* compress_pgn_data followed by decompress_pgn_data succeeds and returns the
\* same headers and an empty move list.
ZeroMoveGameDecoded ==
  codec = "dynamic" /\ api = "data" /\ pgn.moves = <<>> /\ frame.ok /\ pc = "done"

C28_ZeroMoveGame ==
  ZeroMoveGameDecoded => result = [kind |-> "ok", headers |-> pgn.headers, moves |-> <<>>]

\* C29: decompress_moves_custom halts on every bit vector: each round of its
\* loop returns, a result or an error, or shortens the remaining bits by at
\* least one, and the number of rounds is at most the number of input bits.
MoveBitsGiven ==
  get_bitvec_slice(wire,
                   IF decompress_headers(wire).header_bytes_len = 0 THEN 1
                   ELSE decompress_headers(wire).header_bytes_len,
                   Len(wire))

\* decompress_moves_custom has been called
LoopEntered ==
  /\ codec = "dynamic"
  /\ pc \in {"decode_moves", "done"}
  /\ result.kind # "compress_err"
  /\ decompress_headers(wire).kind = "ok"
  /\ MoveBitsGiven.ok

\* every round but one that returns an error adds a move
Rounds == Len(moves) + (IF pc = "done" /\ result.kind = "err" THEN 1 ELSE 0)

ReturnsOrShortens ==
  codec = "dynamic" /\ pc = "decode_moves"
    => pc' = "done" \/ Len(move_bits') < Len(move_bits)

RoundsWithinBits == LoopEntered => Rounds <= Len(MoveBitsGiven.bits)

\* the same for the calls with at least one bit
RoundsWithinBitsGiven ==
  LoopEntered /\ MoveBitsGiven.bits # <<>> => Rounds <= Len(MoveBitsGiven.bits)

\* the part of C29 that is about single rounds
EveryRoundReturnsOrShortens == [][ReturnsOrShortens]_vars

C29_DynamicDecodeTerminates == [][ReturnsOrShortens]_vars /\ []RoundsWithinBits

\* -------------------------------------------------------------- SpecGenes
\* genetic_algorithm on populations large enough for two parents, so that a
\* child is the mean of two different individuals
MaxGenePopulation == 4

\* one generation; the heights vary and the devs do not, or the other way
\* round without mutation
GeneConfigs ==
  [init_population : {MaxGenePopulation},
   generations : {1},
   tournament_size : {1},
   mutation_rate : MutationRates,
   height_min : {0},
   height_max : {2 * GeneUnit},
   dev_min : {GeneUnit},
   dev_max : {GeneUnit}]
  \cup
  [init_population : {MaxGenePopulation},
   generations : {1},
   tournament_size : {1},
   mutation_rate : {0},
   height_min : {GeneUnit},
   height_max : {GeneUnit},
   dev_min : {GeneUnit},
   dev_max : {2 * GeneUnit}]

NextGenes ==
  \/ \E cfg \in GeneConfigs : StartGa(cfg)
  \/ \E individuals \in UNION {[1..n -> [height : gen_range(config.height_min, config.height_max),
                                          dev : gen_range(config.dev_min, config.dev_max)]]
                               : n \in {config.init_population}} :
       InitPopulation(individuals)
  \/ \E tournaments \in [1..(Len(population) \div 2) ->
                           [1..config.tournament_size -> 1..Len(population)]] :
       SelectParents(tournaments)
  \/ \E p1, p2 \in 1..(MaxGenePopulation \div 2) : \E draw1, draw2 \in UnitDraws :
       \E height \in gen_range(config.height_min, config.height_max) :
         \E dev \in gen_range(config.dev_min, config.dev_max) :
           PushChild(p1, p2, draw1, height, draw2, dev)
  \/ EndGeneration

SpecGenes == InitGa /\ [][NextGenes]_vars

\* C30: if height_min <= height_max and dev_min <= dev_max, every individual
\* of the initial population and of every later generation has its height in
\* [height_min, height_max] and its dev in [dev_min, dev_max], whether a gene
\* is the mean of two parents or was drawn anew.
InBounds(individual) ==
  /\ config.height_min <= individual.height /\ individual.height <= config.height_max
  /\ config.dev_min <= individual.dev /\ individual.dev <= config.dev_max

C30_GeneBounds ==
  config.height_min <= config.height_max /\ config.dev_min <= config.dev_max
    => /\ \A k \in 1..Len(population) : InBounds(population[k][1])
       /\ \A k \in 1..Len(parents) : InBounds(parents[k][1])
       /\ \A k \in 1..Len(children) : InBounds(children[k])

\* the generation after the first holds a child that is the mean of two
\* different parents, strictly inside the range of the heights
C30_Witness ==
  /\ gen_num = 1
  /\ Len(population) = MaxGenePopulation
  /\ \E k \in 1..Len(population) :
       /\ config.height_min < population[k][1].height
       /\ population[k][1].height < config.height_max
====
